---- MODULE Spec2Model ----
(***************************************************************************)
(* IMAPMessageFilter: the rule model, the condition evaluator, the rule    *)
(* matcher (imapmessagefilter/filter_engine.py) and the action-application *)
(* loop of the apply-filters command (imapmessagefilter/cli.py).           *)
(*                                                                         *)
(* Representation.  Python text that the code inspects character by        *)
(* character (field values, condition literals) is a sequence of           *)
(* one-character strings; text that is only compared for equality (rule    *)
(* names, folders, flags) is a TLA+ string.  Optional[T] is a sequence of  *)
(* length at most one: None is << >> and a present value v is << v >>.     *)
(***************************************************************************)
EXTENDS Integers, Sequences, FiniteSets, TLC

VARIABLES
    \* the evaluator applied to one condition
    e_pc, e_condition, e_message, e_result,
    e_raised,           \* whether an exception left the evaluator
    \* the matcher applied to one rule set
    m_pc, m_filters, m_message, m_result,
    \* the filter engine constructed on one rules file
    l_pc,               \* where the engine stands
    l_document,         \* the rules file
    l_filters,          \* self.filters.filters
    l_outcome,          \* what _load_filters logged
    l_summary,          \* what get_filter_summary returned
    l_validation,       \* what validate_filters returned
    l_matched,          \* what match_message returned
    \* one use of the IMAP session context manager
    s_pc,               \* where the with statement stands
    s_config,           \* how the connection is secured
    s_client,           \* whether self.client is set
    s_wire,             \* what was sent to the server
    s_left_by,          \* how control left the with statement
    s_ops,              \* the operations called so far
    s_result,           \* how the last operation called after the block ended
    \* apply-filters: the inputs of the run
    filters,            \* the rule set loaded by the filter engine
    search_result,      \* what search_messages("ALL") returns
    limit,              \* --limit
    dry_run,            \* --dry-run
    filter_name,        \* --filter-name
    \* apply-filters: the locals of the command
    pc, message_ids, idx, matching_filters, ri, ai,
    processed_count, moved_count, deleted_count, marked_count, errors,
    summary,            \* the counts printed at the end of the run
    \* apply-filters: what the run did, kept for the properties
    calls,              \* the mail-store calls made, with their results
    attempts,           \* the actions announced, with their results
    failures,           \* the failures the mail store has produced
    run,                \* 1, or 2 for the live run that follows a dry run
    replay,             \* the fetch results of the dry run, met again live
    prev_processed      \* the processed count the dry run ended with

evalVars == <<e_pc, e_condition, e_message, e_result, e_raised>>

matchVars == <<m_pc, m_filters, m_message, m_result>>

inputVars == <<filters, search_result, limit, filter_name>>

applyVars ==
    <<inputVars, dry_run, pc, message_ids, idx, matching_filters, ri, ai,
      processed_count, moved_count, deleted_count, marked_count, errors,
      summary, calls, attempts, failures, run, replay, prev_processed>>

loadVars ==
    <<l_pc, l_document, l_filters, l_outcome, l_summary, l_validation,
      l_matched>>

sessionVars ==
    <<s_pc, s_config, s_client, s_wire, s_left_by, s_ops, s_result>>

vars == <<evalVars, matchVars, loadVars, applyVars, sessionVars>>

-----------------------------------------------------------------------------
(* Optional values *)

None == << >>

Some(v) == << v >>

EvalIdle ==
    /\ e_pc = "off"
    /\ e_condition = None
    /\ e_message = None
    /\ e_result = FALSE
    /\ e_raised = FALSE

MatchIdle ==
    /\ m_pc = "off"
    /\ m_filters = << >>
    /\ m_message = None
    /\ m_result = << >>

LoadIdle ==
    /\ l_pc = "off"
    /\ l_document = None
    /\ l_filters = << >>
    /\ l_outcome = "none"
    /\ l_summary = None
    /\ l_validation = None
    /\ l_matched = None

SessionIdle ==
    /\ s_pc = "off"
    /\ s_config = "none"
    /\ s_client = FALSE
    /\ s_wire = << >>
    /\ s_left_by = "none"
    /\ s_ops = 0
    /\ s_result = "none"

ApplyIdle ==
    /\ filters = << >>
    /\ search_result = << >>
    /\ limit = None
    /\ dry_run = FALSE
    /\ filter_name = None
    /\ pc = "off"
    /\ message_ids = << >>
    /\ idx = 0
    /\ matching_filters = << >>
    /\ ri = 0
    /\ ai = 0
    /\ processed_count = 0
    /\ moved_count = 0
    /\ deleted_count = 0
    /\ marked_count = 0
    /\ errors = << >>
    /\ summary = None
    /\ calls = << >>
    /\ attempts = << >>
    /\ failures = 0
    /\ run = 0
    /\ replay = << >>
    /\ prev_processed = 0

-----------------------------------------------------------------------------
(* filter_engine.py: the enumerations *)

FilterOperator ==
    { "contains", "is", "starts with", "ends with", "doesn't contain",
      "greater than", "less than", "equals", "not equals" }

FilterAction == { "move", "delete", "mark", "copy" }

FilterField ==
    { "from", "to", "subject", "body", "date", "size", "cc", "bcc",
      "has_attachment" }

-----------------------------------------------------------------------------
(* Python str operations on character sequences *)

UpperChars ==
    << "A", "B", "C", "D", "E", "F", "G", "H", "I", "J", "K", "L", "M",
       "N", "O", "P", "Q", "R", "S", "T", "U", "V", "W", "X", "Y", "Z" >>

LowerChars ==
    << "a", "b", "c", "d", "e", "f", "g", "h", "i", "j", "k", "l", "m",
       "n", "o", "p", "q", "r", "s", "t", "u", "v", "w", "x", "y", "z" >>

\* the place of each upper-case letter in the alphabet
UpperIndex ==
    [ c \in { UpperChars[i] : i \in 1..Len(UpperChars) } |->
        CHOOSE i \in 1..Len(UpperChars) : UpperChars[i] = c ]

\* str.lower() on one character (ASCII)
LowerChar(c) ==
    IF c \in DOMAIN UpperIndex THEN LowerChars[UpperIndex[c]] ELSE c

\* the mutant: the text is compared as it stands, case included
Lower_unchanged(s) == s

\* str.lower()
Lower(s) == [i \in 1..Len(s) |-> LowerChar(s[i])]

\* s.startswith(p)
StartsWith(s, p) ==
    /\ Len(p) <= Len(s)
    /\ \A i \in 1..Len(p) : s[i] = p[i]

\* s.endswith(p)
EndsWith(s, p) ==
    /\ Len(p) <= Len(s)
    /\ \A i \in 1..Len(p) : s[Len(s) - Len(p) + i] = p[i]

\* p in s
Contains(s, p) ==
    \E k \in 0..(Len(s) - Len(p)) : \A i \in 1..Len(p) : s[k + i] = p[i]

DigitChars == << "0", "1", "2", "3", "4", "5", "6", "7", "8", "9" >>

IsDigit(c) == \E i \in 1..Len(DigitChars) : DigitChars[i] = c

DigitVal(c) == (CHOOSE i \in 1..Len(DigitChars) : DigitChars[i] = c) - 1

RECURSIVE StripLeft(_)
StripLeft(s) ==
    IF s # << >> /\ Head(s) = " " THEN StripLeft(Tail(s)) ELSE s

RECURSIVE StripRight(_)
StripRight(s) ==
    IF s # << >> /\ s[Len(s)] = " "
    THEN StripRight(SubSeq(s, 1, Len(s) - 1))
    ELSE s

\* str.strip() of blanks
Strip(s) == StripRight(StripLeft(s))

\* the digits of an integer literal, after the blanks and the sign
IntBody(s) ==
    LET t == Strip(s)
    IN  IF t # << >> /\ Head(t) \in {"+", "-"} THEN Tail(t) ELSE t

\* int(s) does not raise ValueError: blanks, an optional sign, digits
IntParses(s) ==
    /\ IntBody(s) # << >>
    /\ \A i \in 1..Len(IntBody(s)) : IsDigit(IntBody(s)[i])

RECURSIVE DigitsValue(_)
DigitsValue(d) ==
    IF d = << >> THEN 0
    ELSE 10 * DigitsValue(SubSeq(d, 1, Len(d) - 1)) + DigitVal(d[Len(d)])

\* int(s), for a literal that parses
IntOf(s) ==
    LET t == Strip(s)
    IN  IF Head(t) = "-" THEN 0 - DigitsValue(IntBody(s))
        ELSE DigitsValue(IntBody(s))

\* Python orders bool as int: False < True
BoolAsInt(b) == IF b THEN 1 ELSE 0

-----------------------------------------------------------------------------
(* filter_engine.py: MessageData *)

KwGet(kwargs, key) == IF key \in DOMAIN kwargs THEN kwargs[key] ELSE None

\* MessageData.__init__(**kwargs); every value is an Optional
MessageData(kwargs) ==
    [ from_          |-> IF "from_" \in DOMAIN kwargs
                         THEN kwargs["from_"] ELSE KwGet(kwargs, "from"),
      to             |-> KwGet(kwargs, "to"),
      subject        |-> KwGet(kwargs, "subject"),
      body           |-> KwGet(kwargs, "body"),
      date           |-> KwGet(kwargs, "date"),
      size           |-> KwGet(kwargs, "size"),
      cc             |-> KwGet(kwargs, "cc"),
      bcc            |-> KwGet(kwargs, "bcc"),
      has_attachment |-> KwGet(kwargs, "has_attachment") ]

\* the mutant: a field the message does not carry reads as an empty value
get_field_value_present(message, field) ==
    LET v == CASE field = "from" -> message.from_
               [] field = "size" -> message.size
               [] field = "has_attachment" -> message.has_attachment
               [] OTHER -> message[field]
    IN  IF v # None THEN v
        ELSE IF field = "size" THEN Some(0)
        ELSE IF field = "has_attachment" THEN Some(FALSE)
        ELSE Some(<< >>)

\* the mutant: a value that Python finds falsy reads as absent
get_field_value_truthy(message, field) ==
    LET v == CASE field = "from" -> message.from_
               [] field = "size" -> message.size
               [] field = "has_attachment" -> message.has_attachment
               [] OTHER -> message[field]
    IN  IF v = None THEN None
        ELSE IF field = "size" THEN (IF v[1] = 0 THEN None ELSE v)
        ELSE IF field = "has_attachment" THEN (IF v[1] THEN v ELSE None)
        ELSE IF v[1] = << >> THEN None ELSE v

\* MessageData.get_field_value
get_field_value(message, field) ==
    CASE field = "from"           -> message.from_
      [] field = "to"             -> message.to
      [] field = "subject"        -> message.subject
      [] field = "body"           -> message.body
      [] field = "date"           -> message.date
      [] field = "size"           -> message.size
      [] field = "cc"             -> message.cc
      [] field = "bcc"            -> message.bcc
      [] field = "has_attachment" -> message.has_attachment
      [] OTHER                    -> None

-----------------------------------------------------------------------------
(* filter_engine.py: FilterEngine._evaluate_condition *)

NumericOperators == { "greater than", "less than", "equals", "not equals" }

\* the mutant: the strict comparisons admit equality
CompareValues_inclusive(operator, current_value, target_value) ==
    CASE operator = "greater than" -> current_value >= target_value
      [] operator = "less than"    -> current_value <= target_value
      [] operator = "equals"       -> current_value = target_value
      [] operator = "not equals"   -> current_value # target_value
      [] OTHER                     -> FALSE

\* the if/elif chain over two already-converted integers
CompareValues(operator, current_value, target_value) ==
    CASE operator = "greater than" -> current_value > target_value
      [] operator = "less than"    -> current_value < target_value
      [] operator = "equals"       -> current_value = target_value
      [] operator = "not equals"   -> current_value # target_value
      [] OTHER                     -> FALSE

\* the mutant: the literal is compared as it is written, case included
TruthyLiteral_as_written(value) ==
    value \in { << "t", "r", "u", "e" >>, << "1" >>, << "y", "e", "s" >> }

\* the condition literal of a has_attachment condition
TruthyLiteral(value) ==
    Lower(value) \in { << "t", "r", "u", "e" >>, << "1" >>, << "y", "e", "s" >> }

\* the string branch
CompareText(operator, field_str, condition_str) ==
    CASE operator = "contains"        -> Contains(field_str, condition_str)
      [] operator = "is"              -> field_str = condition_str
      [] operator = "starts with"     -> StartsWith(field_str, condition_str)
      [] operator = "ends with"       -> EndsWith(field_str, condition_str)
      [] operator = "doesn't contain" -> ~Contains(field_str, condition_str)
      [] OTHER                        -> FALSE

evaluate_condition(condition, message) ==
    LET field_value == get_field_value(message, condition.field)
    IN  IF field_value = None THEN FALSE
        ELSE IF condition.field \in {"size", "has_attachment"}
        THEN IF condition.operator \in NumericOperators
             THEN IF condition.field = "size"
                  THEN IF ~IntParses(condition.value)
                       THEN FALSE    \* int() raised ValueError
                       ELSE CompareValues(condition.operator,
                                          field_value[1],
                                          IntOf(condition.value))
                  ELSE CompareValues(condition.operator,
                                     BoolAsInt(field_value[1]),
                                     BoolAsInt(TruthyLiteral(condition.value)))
             ELSE FALSE
        ELSE CompareText(condition.operator,
                         Lower(field_value[1]),
                         Lower(condition.value))

\* an exception is raised inside the try block of the numeric branch: int()
\* of a literal that is no integer; bool(), lower() and the comparisons of
\* two integers raise nothing
try_block_raises(condition, message) ==
    /\ get_field_value(message, condition.field) # None
    /\ condition.field = "size"
    /\ condition.operator \in NumericOperators
    /\ ~IntParses(condition.value)

\* the mutant: the exception is not caught
escapes_handler_uncaught(raised) == raised

\* except (ValueError, TypeError): return False; nothing leaves the handler
escapes_handler(raised) == FALSE

\* whether a call of _evaluate_condition ends by an exception
evaluate_raises(condition, message) ==
    escapes_handler(try_block_raises(condition, message))

-----------------------------------------------------------------------------
(* filter_engine.py: FilterEngine._evaluate_conditions and match_message *)

\* the loop over the conditions of one rule, with its early return
RECURSIVE evaluate_conditions(_, _)
evaluate_conditions(conditions, message) ==
    IF conditions = << >> THEN TRUE
    ELSE IF ~evaluate_condition(Head(conditions), message) THEN FALSE
    ELSE evaluate_conditions(Tail(conditions), message)

\* one rule put into an already sorted list, behind every rule whose
\* priority is not larger: what keeps sorted() stable
RECURSIVE InsertByPriority(_, _)
InsertByPriority(sorted, rule) ==
    IF sorted = << >> THEN << rule >>
    ELSE IF Head(sorted).priority <= rule.priority
    THEN << Head(sorted) >> \o InsertByPriority(Tail(sorted), rule)
    ELSE << rule >> \o sorted

RECURSIVE SortFrom(_, _)
SortFrom(sorted, rest) ==
    IF rest = << >> THEN sorted
    ELSE SortFrom(InsertByPriority(sorted, Head(rest)), Tail(rest))

\* the mutant: the rule set is taken as it stands
unsorted_filters(rule_list) == rule_list

\* sorted(self.filters.filters, key=lambda f: f.priority)
sorted_filters(rule_list) == SortFrom(<< >>, rule_list)

\* the mutant: the enabled flag is not looked at
rule_applies_ignoring_enabled(filter_rule, message) ==
    evaluate_conditions(filter_rule.conditions, message)

\* the body of the loop of match_message: whether the rule is appended
rule_applies(filter_rule, message) ==
    IF ~filter_rule.enabled THEN FALSE
    ELSE evaluate_conditions(filter_rule.conditions, message)

RECURSIVE MatchLoop(_, _)
MatchLoop(rules, message) ==
    IF rules = << >> THEN << >>
    ELSE IF rule_applies(Head(rules), message)
    THEN << Head(rules) >> \o MatchLoop(Tail(rules), message)
    ELSE MatchLoop(Tail(rules), message)

match_message(rule_list, message) ==
    IF rule_list = << >> THEN << >>
    ELSE MatchLoop(sorted_filters(rule_list), message)

-----------------------------------------------------------------------------
(* Inputs of the evaluator *)

\* the longest generated text
MaxStrLen == 2

Alphabet == { "a", "A", "b" }

RECURSIVE StringsUpTo(_)
StringsUpTo(n) ==
    IF n = 0 THEN { << >> }
    ELSE LET shorter == StringsUpTo(n - 1)
         IN  shorter \cup { Append(s, c) : s \in shorter, c \in Alphabet }

Texts == StringsUpTo(MaxStrLen)

\* literals of size and has_attachment conditions
Literals ==
    { << "1" >>, << "0" >>, << "2" >>, << "1", "0" >>, << "-", "1" >>,
      << " ", "2", " " >>, << "+", "2" >>, << "x" >>, << "1", "x" >>, << >>,
      << "-" >>, << "t", "r", "u", "e" >>, << "T", "r", "u", "E" >>,
      << "Y", "e", "s" >>, << "f", "a", "l", "s", "e" >>, << "n", "o" >> }

\* the largest generated message size
MaxSize == 3

TextFields == FilterField \ {"size", "has_attachment"}

\* the values a message may carry in a field
FieldValues(field) ==
    IF field = "size" THEN 0..MaxSize
    ELSE IF field = "has_attachment" THEN BOOLEAN
    ELSE Texts

KwName(field) == IF field = "from" THEN "from_" ELSE field

\* a message that carries the one field given
MessageWith(field, v) == MessageData([k \in {KwName(field)} |-> Some(v)])

EmptyMessage == MessageData([k \in {} |-> None])

ConditionValues(field) ==
    IF field \in {"size", "has_attachment"} THEN Literals \cup Texts ELSE Texts

Conditions ==
    UNION { [ field : {f}, operator : FilterOperator, value : ConditionValues(f) ]
            : f \in FilterField }

-----------------------------------------------------------------------------
(* The evaluator applied to one condition and one message *)

InitEval ==
    /\ MatchIdle
    /\ LoadIdle
    /\ ApplyIdle
    /\ SessionIdle
    /\ e_pc = "ready"
    /\ e_condition \in Conditions
    /\ e_message \in
         {EmptyMessage}
           \cup { MessageWith(e_condition.field, v) :
                    v \in FieldValues(e_condition.field) }
           \cup { MessageWith(f, CHOOSE v \in FieldValues(f) : TRUE) :
                    f \in FilterField \ {e_condition.field} }
    /\ e_result = FALSE
    /\ e_raised = FALSE

Evaluate ==
    /\ e_pc = "ready"
    /\ e_result' = evaluate_condition(e_condition, e_message)
    /\ e_raised' = evaluate_raises(e_condition, e_message)
    /\ e_pc' = "done"
    /\ UNCHANGED <<e_condition, e_message, matchVars, loadVars, applyVars,
                   sessionVars>>

NextEval == Evaluate

SpecEval == InitEval /\ [][NextEval]_vars

-----------------------------------------------------------------------------
\* C4: a condition on a field the message does not carry evaluates to false,
\* for every one of the nine operators, the negated ones included.
AbsentFieldIsFalse ==
    (e_pc = "done" /\ e_message[KwName(e_condition.field)] = None)
        => e_result = FALSE

\* C4 witness: a negated operator evaluated on an absent field
AbsentFieldNegatedEvaluated ==
    /\ e_pc = "done"
    /\ e_message[KwName(e_condition.field)] = None
    /\ e_condition.operator \in {"doesn't contain", "not equals"}
    /\ e_result = FALSE

-----------------------------------------------------------------------------
(* Inputs of the matcher *)

\* the longest rule set
MaxRules == 3

\* the largest priority
MaxPriority == 2

RuleNames == << "alpha", "beta", "gamma", "delta", "epsilon" >>

Cond(field, operator, value) ==
    [ field |-> field, operator |-> operator, value |-> value ]

Action(type, folder, flag) == [ type |-> type, folder |-> folder, flag |-> flag ]

ConditionLists ==
    { << Cond("subject", "contains", << "S", "P" >>) >>,
      << Cond("subject", "contains", << "s", "p" >>),
         Cond("from", "is", << "b", "o" >>) >> }

MatchMessages ==
    { MessageData([ from_ |-> Some(<< "B", "o" >>),
                    subject |-> Some(<< "a", "S", "p", "a" >>) ]),
      MessageData([ from_ |-> Some(<< "a", "l" >>),
                    subject |-> Some(<< "s", "p" >>),
                    to |-> Some(<< "m", "e" >>) ]),
      MessageData([ from_ |-> Some(<< "b", "o" >>) ]) }

\* what a rule of a generated rule set is made of, its name apart
RuleBodies ==
    [ enabled : BOOLEAN, priority : 1..MaxPriority, conditions : ConditionLists ]

\* the rule set of the given bodies; the i-th rule is named RuleNames[i]
RuleSetOf(bodies) ==
    [ i \in 1..Len(bodies) |->
        [ name       |-> RuleNames[i],
          enabled    |-> bodies[i].enabled,
          priority   |-> bodies[i].priority,
          conditions |-> bodies[i].conditions,
          actions    |-> << Action("delete", None, None) >> ] ]

InitMatch ==
    /\ EvalIdle
    /\ LoadIdle
    /\ ApplyIdle
    /\ SessionIdle
    /\ m_pc = "ready"
    /\ \E n \in 0..MaxRules :
        \E bodies \in [ 1..n -> RuleBodies ] : m_filters = RuleSetOf(bodies)
    /\ m_message \in MatchMessages
    /\ m_result = << >>

Match ==
    /\ m_pc = "ready"
    /\ m_result' = match_message(m_filters, m_message)
    /\ m_pc' = "done"
    /\ UNCHANGED <<m_filters, m_message, evalVars, loadVars, applyVars,
                   sessionVars>>

NextMatch == Match

SpecMatch == InitMatch /\ [][NextMatch]_vars

\* the positions of the rule set whose rule is enabled and has every condition
\* true of the message
Qualifying(rule_list, message) ==
    { i \in 1..Len(rule_list) :
        /\ rule_list[i].enabled
        /\ \A k \in 1..Len(rule_list[i].conditions) :
              evaluate_condition(rule_list[i].conditions[k], message) }

\* the position in the rule set of a rule of the result (names are distinct)
PositionOf(rule_list, rule) == CHOOSE i \in 1..Len(rule_list) : rule_list[i] = rule

\* C5: match returns exactly the enabled rules whose every condition is true,
\* each once: no disabled rule, no rule with a false condition, and every
\* qualifying rule whatever else matched.
MatchIsExactlyQualifying ==
    m_pc = "done" =>
        /\ \A k \in 1..Len(m_result) :
              \E i \in Qualifying(m_filters, m_message) : m_result[k] = m_filters[i]
        /\ \A i \in Qualifying(m_filters, m_message) :
              \E k \in 1..Len(m_result) : m_result[k] = m_filters[i]
        /\ Len(m_result) = Cardinality(Qualifying(m_filters, m_message))

\* C5 witness: a rule matches, while a disabled rule whose conditions hold
\* and an enabled rule with a false condition are left out
MatchWithExcludedRules ==
    /\ m_pc = "done"
    /\ Len(m_result) >= 1
    /\ \E i \in 1..Len(m_filters) :
          /\ ~m_filters[i].enabled
          /\ evaluate_conditions(m_filters[i].conditions, m_message)
    /\ \E i \in 1..Len(m_filters) :
          /\ m_filters[i].enabled
          /\ ~evaluate_conditions(m_filters[i].conditions, m_message)

\* C6: the result of match is in non-decreasing priority order, and rules of
\* equal priority keep their relative order of the rule set.
MatchSortedAndStable ==
    m_pc = "done" =>
        \A i, j \in 1..Len(m_result) :
            i < j =>
                /\ m_result[i].priority <= m_result[j].priority
                /\ m_result[i].priority = m_result[j].priority =>
                      PositionOf(m_filters, m_result[i])
                        < PositionOf(m_filters, m_result[j])

\* C6 witness: a later rule of smaller priority is returned first, and two
\* rules of equal priority are both returned
MatchReordersAndTies ==
    /\ m_pc = "done"
    /\ \E i, j \in 1..Len(m_result) :
          /\ i < j
          /\ PositionOf(m_filters, m_result[i]) > PositionOf(m_filters, m_result[j])
    /\ \E i, j \in 1..Len(m_result) :
          /\ i < j
          /\ m_result[i].priority = m_result[j].priority

-----------------------------------------------------------------------------
(* cli.py apply_filters: the message built from a fetched envelope *)

InvalidByte == "xFF"

\* bytes.decode('utf-8', errors='ignore'): a byte that is no UTF-8 is dropped
Decode(bytes) == SelectSeq(bytes, LAMBDA b : b # InvalidByte)

Digit(n) == DigitChars[n + 1]

Pad2(n) == << Digit(n \div 10), Digit(n % 10) >>

Pad4(n) ==
    << Digit(n \div 1000), Digit((n \div 100) % 10),
       Digit((n \div 10) % 10), Digit(n % 10) >>

\* datetime.isoformat() of a naive date at midnight, << year, month, day >>
IsoFormat(date) ==
    Pad4(date[1]) \o << "-" >> \o Pad2(date[2]) \o << "-" >> \o Pad2(date[3])
        \o << "T", "0", "0", ":", "0", "0", ":", "0", "0" >>

\* envelope.from_[0].mailbox.decode raises: the first address has no mailbox
BuildRaises(envelope) ==
    envelope.from_ # << >> /\ envelope.from_[1].mailbox = None

\* the mutant: the message is built with an empty recipient and without
\* attachment as well
EnvelopeMessage_with_more(envelope) ==
    MessageData(
      [ from_   |-> IF envelope.from_ # << >>
                    THEN Some(Decode(envelope.from_[1].mailbox[1]))
                    ELSE None,
        subject |-> IF envelope.subject # None /\ envelope.subject[1] # << >>
                    THEN Some(Decode(envelope.subject[1]))
                    ELSE None,
        date    |-> IF envelope.date # None
                    THEN Some(IsoFormat(envelope.date[1]))
                    ELSE None,
        size    |-> envelope.size,
        to      |-> Some(<< >>),
        has_attachment |-> Some(FALSE) ])

\* MessageData(from_=..., subject=..., date=..., size=...)
EnvelopeMessage(envelope) ==
    MessageData(
      [ from_   |-> IF envelope.from_ # << >>
                    THEN Some(Decode(envelope.from_[1].mailbox[1]))
                    ELSE None,
        subject |-> IF envelope.subject # None /\ envelope.subject[1] # << >>
                    THEN Some(Decode(envelope.subject[1]))
                    ELSE None,
        date    |-> IF envelope.date # None
                    THEN Some(IsoFormat(envelope.date[1]))
                    ELSE None,
        size    |-> envelope.size ])

\* the mutant: the restriction is not applied
restrict_by_name_off(matching, name) == matching

\* if filter_name: matching_filters = [f for f in ... if f.name == filter_name]
restrict_by_name(matching, name) ==
    IF name # None /\ name[1] # ""
    THEN SelectSeq(matching, LAMBDA f : f.name = name[1])
    ELSE matching

Max(a, b) == IF a >= b THEN a ELSE b

Min(a, b) == IF a <= b THEN a ELSE b

\* ids[-n:] as Python slices, n # 0
LastSlice(ids, n) ==
    LET start == IF n > 0 THEN Max(Len(ids) - n, 0) ELSE Min(0 - n, Len(ids))
    IN  SubSeq(ids, start + 1, Len(ids))

\* the mutant: the first ids of the search result, message_ids[:limit]
limited_from_the_front(ids, lim) ==
    IF lim # None /\ lim[1] # 0 THEN SubSeq(ids, 1, Min(lim[1], Len(ids))) ELSE ids

\* if limit: message_ids = message_ids[-limit:]
limited(ids, lim) ==
    IF lim # None /\ lim[1] # 0 THEN LastSlice(ids, lim[1]) ELSE ids

-----------------------------------------------------------------------------
(* The mail store, as the command sees it *)

\* what a call of the mail store may do: return, raise an operation-level
\* error, raise a connection-level error (IMAPConnectionError)
StoreOutcomes == { "ok", "operr", "connerr" }

Call(op, msg_id, arg, action, result) ==
    [ op |-> op, msg |-> msg_id, arg |-> arg, action |-> action,
      result |-> result ]

\* error_msg = f"Failed to {kind} message {msg_id}: {e}", and
\* f"Error processing message {msg_id}: {e}" as kind "process"
ErrorEntry(kind, msg_id) == [ kind |-> kind, msg |-> msg_id ]

NoEffect == [ calls |-> << >>, count |-> 0, errors |-> << >> ]

-----------------------------------------------------------------------------
(* cli.py apply_filters: one action of a matching rule *)

\* the mutant: the message is moved whatever the folder creation did
move_effect_unguarded(dry, msg_id, target_folder, results) ==
    IF dry THEN NoEffect
    ELSE LET moved == IF Len(results) >= 2 THEN results[2] ELSE "ok"
         IN  [ calls  |-> << Call("create_folder", msg_id, target_folder,
                                  "move", results[1]),
                             Call("move", msg_id, target_folder, "move", moved) >>,
               count  |-> IF moved = "ok" THEN 1 ELSE 0,
               errors |-> IF results[1] = "ok" /\ moved = "ok" THEN << >>
                          ELSE << ErrorEntry("move", msg_id) >> ]

\* the mutant: a dry run moves too
move_effect_always_live(dry, msg_id, target_folder, results) ==
    [ calls  |-> << Call("create_folder", msg_id, target_folder, "move", "ok"),
                    Call("move", msg_id, target_folder, "move", "ok") >>,
      count  |-> 1,
      errors |-> << >> ]

\* action.type == 'move'
move_effect(dry, msg_id, target_folder, results) ==
    IF dry THEN NoEffect
    ELSE IF results[1] # "ok"
    THEN [ calls  |-> << Call("create_folder", msg_id, target_folder,
                              "move", results[1]) >>,
           count  |-> 0,
           errors |-> << ErrorEntry("move", msg_id) >> ]
    ELSE IF results[2] # "ok"
    THEN [ calls  |-> << Call("create_folder", msg_id, target_folder,
                              "move", "ok"),
                         Call("move", msg_id, target_folder, "move",
                              results[2]) >>,
           count  |-> 0,
           errors |-> << ErrorEntry("move", msg_id) >> ]
    ELSE [ calls  |-> << Call("create_folder", msg_id, target_folder,
                              "move", "ok"),
                         Call("move", msg_id, target_folder, "move", "ok") >>,
           count  |-> 1,
           errors |-> << >> ]

\* the mutant: a failed deletion is not recorded
delete_effect_silent(dry, msg_id, results) ==
    IF dry THEN NoEffect
    ELSE [ calls  |-> << Call("delete", msg_id, "", "delete", results[1]) >>,
           count  |-> IF results[1] = "ok" THEN 1 ELSE 0,
           errors |-> << >> ]

\* action.type == 'delete'
delete_effect(dry, msg_id, results) ==
    IF dry THEN NoEffect
    ELSE IF results[1] # "ok"
    THEN [ calls  |-> << Call("delete", msg_id, "", "delete", results[1]) >>,
           count  |-> 0,
           errors |-> << ErrorEntry("delete", msg_id) >> ]
    ELSE [ calls  |-> << Call("delete", msg_id, "", "delete", "ok") >>,
           count  |-> 1,
           errors |-> << >> ]

\* action.type == 'mark'
mark_effect(dry, msg_id, flag, results) ==
    IF dry THEN NoEffect
    ELSE IF results[1] # "ok"
    THEN [ calls  |-> << Call("mark", msg_id, flag, "mark", results[1]) >>,
           count  |-> 0,
           errors |-> << ErrorEntry("mark", msg_id) >> ]
    ELSE [ calls  |-> << Call("mark", msg_id, flag, "mark", "ok") >>,
           count  |-> 1,
           errors |-> << >> ]

\* action.type == 'copy': no count is kept for copies
copy_effect(dry, msg_id, target_folder, results) ==
    IF dry THEN NoEffect
    ELSE IF results[1] # "ok"
    THEN [ calls  |-> << Call("create_folder", msg_id, target_folder,
                              "copy", results[1]) >>,
           count  |-> 0,
           errors |-> << ErrorEntry("copy", msg_id) >> ]
    ELSE IF results[2] # "ok"
    THEN [ calls  |-> << Call("create_folder", msg_id, target_folder,
                              "copy", "ok"),
                         Call("copy", msg_id, target_folder, "copy",
                              results[2]) >>,
           count  |-> 0,
           errors |-> << ErrorEntry("copy", msg_id) >> ]
    ELSE [ calls  |-> << Call("create_folder", msg_id, target_folder,
                              "copy", "ok"),
                         Call("copy", msg_id, target_folder, "copy", "ok") >>,
           count  |-> 0,
           errors |-> << >> ]

\* the mutant: once a message has been deleted, the rest of its actions is
\* skipped
next_position_stopping_after_delete(failed, matching, at_idx, at_ri, at_ai) ==
    LET gone == ~failed /\ matching[at_ri].actions[at_ai].type = "delete"
    IN  IF ~gone /\ at_ai < Len(matching[at_ri].actions)
        THEN [ pc |-> "act", idx |-> at_idx, ri |-> at_ri, ai |-> at_ai + 1 ]
        ELSE IF ~gone /\ at_ri < Len(matching)
        THEN [ pc |-> "act", idx |-> at_idx, ri |-> at_ri + 1, ai |-> 1 ]
        ELSE [ pc |-> "fetch", idx |-> at_idx + 1, ri |-> 0, ai |-> 0 ]

\* the mutant: the exception of a failed action reaches the handler of the
\* message, and the rest of the message's actions is skipped
next_position_aborting(failed, matching, at_idx, at_ri, at_ai) ==
    IF ~failed /\ at_ai < Len(matching[at_ri].actions)
    THEN [ pc |-> "act", idx |-> at_idx, ri |-> at_ri, ai |-> at_ai + 1 ]
    ELSE IF ~failed /\ at_ri < Len(matching)
    THEN [ pc |-> "act", idx |-> at_idx, ri |-> at_ri + 1, ai |-> 1 ]
    ELSE [ pc |-> "fetch", idx |-> at_idx + 1, ri |-> 0, ai |-> 0 ]

\* where the loops stand after one action: the next action of the rule, the
\* next matching rule, the next message id; a caught failure changes nothing
next_position(failed, matching, at_idx, at_ri, at_ai) ==
    IF at_ai < Len(matching[at_ri].actions)
    THEN [ pc |-> "act", idx |-> at_idx, ri |-> at_ri, ai |-> at_ai + 1 ]
    ELSE IF at_ri < Len(matching)
    THEN [ pc |-> "act", idx |-> at_idx, ri |-> at_ri + 1, ai |-> 1 ]
    ELSE [ pc |-> "fetch", idx |-> at_idx + 1, ri |-> 0, ai |-> 0 ]

-----------------------------------------------------------------------------
(* Inputs of apply-filters *)

\* the longest search result
MaxMsgs == 2

\* the longest rule set of a run
MaxApplyRules == 2

\* the largest --limit
MaxLimit == 2

\* the failures the mail store produces in one run, at most
MaxFailures == 1

Address(mailbox) == [ mailbox |-> mailbox ]

\* the INBOX: message id -> ENVELOPE
Envelopes ==
    << [ date    |-> Some(<< 2024, 1, 5 >>),
         subject |-> Some(<< "S", "p", "a", "m" >>),
         from_   |-> << Address(Some(<< "B", "o" >>)) >>,
         size    |-> None ],
       [ date    |-> None,
         subject |-> Some(<< "s", "p", "a", "m" >>),
         from_   |-> << Address(None) >>,
         size    |-> None ],
       [ date    |-> Some(<< 2023, 12, 31 >>),
         subject |-> Some(<< "s", "xFF", "p", "a", "m" >>),
         from_   |-> << >>,
         size    |-> Some(3) ] >>

Mailbox(msg_id) == Envelopes[msg_id]

\* the rules a run may load, in the order of the rules file
ApplyRules ==
    << [ name |-> "Spam", enabled |-> TRUE, priority |-> 2,
         conditions |-> << Cond("subject", "contains", << "S", "P" >>) >>,
         actions |-> << Action("move", Some("Junk"), None) >> ],
       [ name |-> "Keep", enabled |-> TRUE, priority |-> 1,
         conditions |-> << Cond("from", "is", << "b", "o" >>),
                           Cond("date", "starts with", << "2", "0", "2", "4" >>) >>,
         actions |-> << Action("copy", Some("Arch"), None),
                        Action("mark", None, Some("Seen")) >> ],
       [ name |-> "Purge", enabled |-> TRUE, priority |-> 1,
         conditions |-> << Cond("subject", "ends with", << "a", "m" >>) >>,
         actions |-> << Action("delete", None, None) >> ],
       [ name |-> "Big", enabled |-> FALSE, priority |-> 1,
         conditions |-> << Cond("size", "greater than", << "1" >>) >>,
         actions |-> << Action("delete", None, None) >> ],
       [ name |-> "Rest", enabled |-> TRUE, priority |-> 1,
         conditions |-> << Cond("subject", "contains", << "s", "p" >>),
                           Cond("to", "doesn't contain", << "z" >>),
                           Cond("has_attachment", "not equals",
                                << "t", "r", "u", "e" >>) >>,
         actions |-> << Action("delete", None, None) >> ] >>

RECURSIVE Ascending(_)
Ascending(ids) ==
    IF ids = {} THEN << >>
    ELSE LET least == CHOOSE i \in ids : \A j \in ids : i <= j
         IN  << least >> \o Ascending(ids \ {least})

\* the rule sets of a run: up to MaxApplyRules of the rules, in file order
ApplyRuleSets ==
    { [ i \in 1..Len(Ascending(picked)) |-> ApplyRules[Ascending(picked)[i]] ] :
        picked \in { x \in SUBSET (1..Len(ApplyRules)) :
                       Cardinality(x) <= MaxApplyRules } }

\* a search returns message ids in ascending order
SearchResults ==
    { Ascending(ids) : ids \in { x \in SUBSET (1..Len(Envelopes)) :
                                   Cardinality(x) <= MaxMsgs } }

LimitValues == { None } \cup { Some(n) : n \in 0..MaxLimit }

\* --filter-name: not given, the name of a rule, the empty name
NameValues == { None, Some("Keep"), Some("") }

InitApply ==
    /\ EvalIdle
    /\ MatchIdle
    /\ LoadIdle
    /\ SessionIdle
    /\ filters \in ApplyRuleSets
    /\ search_result \in SearchResults
    /\ limit \in LimitValues
    /\ dry_run \in BOOLEAN
    /\ filter_name \in NameValues
    /\ pc = "start"
    /\ message_ids = << >>
    /\ idx = 0
    /\ matching_filters = << >>
    /\ ri = 0
    /\ ai = 0
    /\ processed_count = 0
    /\ moved_count = 0
    /\ deleted_count = 0
    /\ marked_count = 0
    /\ errors = << >>
    /\ summary = None
    /\ calls = << >>
    /\ attempts = << >>
    /\ failures = 0
    /\ run = 1
    /\ replay = << >>
    /\ prev_processed = 0

-----------------------------------------------------------------------------
(* cli.py apply_filters, step by step *)

loopVars == <<pc, idx, matching_filters, ri, ai>>

countVars == <<processed_count, moved_count, deleted_count, marked_count>>

historyVars == <<run, replay, prev_processed>>

\* select_folder('INBOX'), search_messages("ALL"), the limit, the counters
Start ==
    /\ pc = "start"
    /\ \E result \in { "ok", "connerr" } :
        IF result = "connerr"
        THEN \* raised before the loop: the command's own handler, sys.exit(1)
             /\ pc' = "failed"
             /\ UNCHANGED <<message_ids, idx>>
        ELSE IF Len(search_result) = 0
        THEN \* "No messages found in INBOX"
             /\ pc' = "returned"
             /\ UNCHANGED <<message_ids, idx>>
        ELSE /\ message_ids' = limited(search_result, limit)
             /\ idx' = 1
             /\ pc' = "fetch"
    /\ UNCHANGED <<evalVars, matchVars, loadVars, sessionVars, inputVars,
                   dry_run, matching_filters,
                   ri, ai, countVars, errors, summary, calls, attempts,
                   failures, historyVars>>

\* the mutant: a message counts once per matching rule
processed_increment_per_rule(found) == Len(found)

\* if matching_filters: processed_count += 1
processed_increment(found) == IF found # << >> THEN 1 ELSE 0

\* the mutant: a fetch that returns no entry for the id is an error too
fetch_raised_or_absent(result, envelope) ==
    \/ result \in { "connerr", "absent" }
    \/ result = "ok" /\ BuildRaises(envelope)

\* whether the handler of the message is entered: the fetch raised, or the
\* construction of the message did; "if msg_id not in envelopes: continue"
\* raises nothing
fetch_raised(result, envelope) ==
    \/ result = "connerr"
    \/ result = "ok" /\ BuildRaises(envelope)

\* what fetch_message_envelope([msg_id]) does this time
FetchResults ==
    IF run = 2 THEN { replay[idx] }
    ELSE { "ok", "absent" }
           \cup (IF failures < MaxFailures THEN { "connerr" } ELSE {})

\* the head of the loop body: the fetch, the message, the matching rules;
\* counted is what a message with a matching rule adds to processed_count
FetchWith(counted) ==
    /\ pc = "fetch"
    /\ idx <= Len(message_ids)
    /\ \E result \in FetchResults :
        LET msg_id == message_ids[idx]
            envelope == Mailbox(msg_id)
            raised == fetch_raised(result, envelope)
            found == IF result = "ok" /\ ~BuildRaises(envelope)
                     THEN restrict_by_name(
                              match_message(filters, EnvelopeMessage(envelope)),
                              filter_name)
                     ELSE << >>
        IN  /\ calls' = Append(calls, Call("fetch", msg_id, "", "fetch", result))
            /\ replay' = IF run = 1 THEN Append(replay, result) ELSE replay
            /\ failures' = IF result = "connerr" /\ run = 1
                           THEN failures + 1 ELSE failures
            /\ errors' = IF raised
                         THEN Append(errors, ErrorEntry("process", msg_id))
                         ELSE errors
            /\ IF found # << >>
               THEN /\ processed_count' =
                        processed_count + counted * processed_increment(found)
                    /\ matching_filters' = found
                    /\ ri' = 1
                    /\ ai' = 1
                    /\ pc' = "act"
                    /\ idx' = idx
               ELSE /\ idx' = idx + 1
                    /\ UNCHANGED <<processed_count, matching_filters, ri, ai, pc>>
    /\ UNCHANGED <<evalVars, matchVars, loadVars, sessionVars, inputVars,
                   dry_run, message_ids,
                   moved_count, deleted_count, marked_count, summary,
                   attempts, run, prev_processed>>

\* the mutant: only a live run counts a message as processed
FetchCountingLive == FetchWith(IF dry_run THEN 0 ELSE 1)

FetchMessage == FetchWith(1)

CurrentMsg == message_ids[idx]

CurrentRule == matching_filters[ri]

CurrentAction == matching_filters[ri].actions[ai]

\* the results of the mail-store calls of an action of one call
OneCallResults ==
    IF dry_run THEN { << >> }
    ELSE { << r >> : r \in IF failures < MaxFailures
                           THEN StoreOutcomes ELSE { "ok" } }

\* the results of the mail-store calls of an action of two calls, the second
\* made when the first returned
TwoCallResults ==
    IF dry_run THEN { << >> }
    ELSE IF failures < MaxFailures
    THEN { << r >> : r \in StoreOutcomes \ { "ok" } }
           \cup { << "ok", r >> : r \in StoreOutcomes }
    ELSE { << "ok", "ok" >> }

\* what every action does besides its own count
Executed(type, effect) ==
    LET failed == effect.errors # << >>
        next == next_position(failed, matching_filters, idx, ri, ai)
    IN  /\ calls' = calls \o effect.calls
        /\ errors' = errors \o effect.errors
        /\ failures' = failures + Len(effect.errors)
        /\ attempts' = Append(attempts,
                              [ msg |-> CurrentMsg, rule |-> CurrentRule.name,
                                index |-> ai, type |-> type,
                                result |-> IF dry_run THEN "dry"
                                           ELSE IF failed THEN "failed"
                                           ELSE "ok" ])
        /\ pc' = next.pc
        /\ idx' = next.idx
        /\ ri' = next.ri
        /\ ai' = next.ai
        /\ matching_filters' = IF next.pc = "act" THEN matching_filters ELSE << >>
        /\ UNCHANGED <<evalVars, matchVars, loadVars, sessionVars, inputVars,
                       dry_run, message_ids,
                       processed_count, summary, historyVars>>

ExecMove ==
    /\ pc = "act"
    /\ CurrentAction.type = "move"
    /\ \E results \in TwoCallResults :
        LET effect == move_effect(dry_run, CurrentMsg, CurrentAction.folder[1],
                                  results)
        IN  /\ Executed("move", effect)
            /\ moved_count' = moved_count + effect.count
            /\ UNCHANGED <<deleted_count, marked_count>>

ExecDelete ==
    /\ pc = "act"
    /\ CurrentAction.type = "delete"
    /\ \E results \in OneCallResults :
        LET effect == delete_effect(dry_run, CurrentMsg, results)
        IN  /\ Executed("delete", effect)
            /\ deleted_count' = deleted_count + effect.count
            /\ UNCHANGED <<moved_count, marked_count>>

ExecMark ==
    /\ pc = "act"
    /\ CurrentAction.type = "mark"
    /\ \E results \in OneCallResults :
        LET effect == mark_effect(dry_run, CurrentMsg, CurrentAction.flag[1],
                                  results)
        IN  /\ Executed("mark", effect)
            /\ marked_count' = marked_count + effect.count
            /\ UNCHANGED <<moved_count, deleted_count>>

ExecCopy ==
    /\ pc = "act"
    /\ CurrentAction.type = "copy"
    /\ \E results \in TwoCallResults :
        LET effect == copy_effect(dry_run, CurrentMsg, CurrentAction.folder[1],
                                  results)
        IN  /\ Executed("copy", effect)
            /\ UNCHANGED <<moved_count, deleted_count, marked_count>>

\* the counts printed after the loop
Summarize ==
    /\ pc = "fetch"
    /\ idx > Len(message_ids)
    /\ summary' = Some([ processed |-> processed_count,
                         moved     |-> moved_count,
                         deleted   |-> deleted_count,
                         marked    |-> marked_count ])
    /\ pc' = "done"
    /\ UNCHANGED <<evalVars, matchVars, loadVars, sessionVars, inputVars,
                   dry_run, message_ids, idx,
                   matching_filters, ri, ai, countVars, errors, calls,
                   attempts, failures, historyVars>>

\* the command run again, live, after a dry run: the same rule set, the same
\* message ids, and the fetches answer as they did
Rerun ==
    /\ pc = "done"
    /\ run = 1
    /\ dry_run
    /\ dry_run' = FALSE
    /\ run' = 2
    /\ prev_processed' = processed_count
    /\ pc' = "fetch"
    /\ idx' = 1
    /\ processed_count' = 0
    /\ moved_count' = 0
    /\ deleted_count' = 0
    /\ marked_count' = 0
    /\ errors' = << >>
    /\ summary' = None
    /\ calls' = << >>
    /\ attempts' = << >>
    /\ failures' = 0
    /\ UNCHANGED <<evalVars, matchVars, loadVars, sessionVars, inputVars,
                   message_ids,
                   matching_filters, ri, ai, replay>>

Next ==
    \/ Start
    \/ FetchMessage
    \/ ExecMove
    \/ ExecDelete
    \/ ExecMark
    \/ ExecCopy
    \/ Summarize
    \/ Rerun

Spec == InitApply /\ [][Next]_vars

-----------------------------------------------------------------------------
(* What the properties of apply-filters read off the run *)

\* the calls that change the mail store
MutatingCalls == SelectSeq(calls, LAMBDA c : c.op # "fetch")

Count(seq, Test(_)) == Len(SelectSeq(seq, Test))

\* for each rule of ApplyRules and each envelope of the mailbox, whether the
\* conditions of the rule hold of the message built from the envelope; the
\* rule sets and the mailbox of a run are drawn from these, so the table is
\* computed once
ConditionsHoldOf ==
    [ r \in 1..Len(ApplyRules) |->
        [ m \in 1..Len(Envelopes) |->
            IF BuildRaises(Envelopes[m]) THEN FALSE
            ELSE evaluate_conditions(ApplyRules[r].conditions,
                                     EnvelopeMessage(Envelopes[m])) ] ]

\* the place of a rule of a run in ApplyRules
PlaceInApplyRules(rule) == CHOOSE r \in 1..Len(ApplyRules) : ApplyRules[r] = rule

\* for each rule set of a run and each envelope of the mailbox, the enabled
\* rules of the set whose conditions hold of the message built from the
\* envelope, in the order of match_message; none when the message cannot be
\* built
MatchingIn ==
    [ rule_list \in ApplyRuleSets |->
        [ m \in 1..Len(Envelopes) |->
            IF BuildRaises(Envelopes[m]) \/ rule_list = << >> THEN << >>
            ELSE SelectSeq(sorted_filters(rule_list),
                           LAMBDA rule :
                               /\ rule.enabled
                               /\ ConditionsHoldOf[PlaceInApplyRules(rule)][m]) ] ]

\* the rules whose actions the loop runs for a message whose envelope came
MatchingOf(msg_id) ==
    restrict_by_name(MatchingIn[filters][msg_id], filter_name)

Fetched(msg_id) ==
    \E k \in 1..Len(calls) : calls[k].op = "fetch" /\ calls[k].msg = msg_id

FetchedOk(msg_id) ==
    \E k \in 1..Len(calls) :
        calls[k].op = "fetch" /\ calls[k].msg = msg_id /\ calls[k].result = "ok"

AttemptedFor(msg_id, rule_name, index) ==
    \E k \in 1..Len(attempts) :
        /\ attempts[k].msg = msg_id
        /\ attempts[k].rule = rule_name
        /\ attempts[k].index = index

\* C1: a dry run never calls create-folder, move, copy, delete or mark, and
\* its moved, deleted and marked counts are 0, also in the summary.
DryRunNeverMutates ==
    dry_run =>
        /\ MutatingCalls = << >>
        /\ moved_count = 0 /\ deleted_count = 0 /\ marked_count = 0
        /\ pc = "done" =>
              /\ summary[1].moved = 0
              /\ summary[1].deleted = 0
              /\ summary[1].marked = 0

\* C1 witness: a dry run has ended after announcing a move and a delete
DryRunAnnouncedActions ==
    /\ dry_run
    /\ pc = "done"
    /\ \E k \in 1..Len(attempts) : attempts[k].type = "move"
    /\ \E k \in 1..Len(attempts) : attempts[k].type = "delete"

\* C2: a live run that reaches its summary has fetched every message id and
\* attempted every action of every matching rule of every message whose
\* envelope came, whatever failed on the way; and the run fails only before
\* the loop, never because of an action.
FailedActionNeverAborts ==
    /\ pc = "failed" => calls = << >>
    /\ (pc = "done" /\ ~dry_run) =>
          \A i \in 1..Len(message_ids) :
              /\ Fetched(message_ids[i])
              /\ FetchedOk(message_ids[i]) =>
                    LET found == MatchingOf(message_ids[i])
                    IN  \A r \in 1..Len(found) :
                            \A a \in 1..Len(found[r].actions) :
                                AttemptedFor(message_ids[i], found[r].name, a)

\* C2 witness: the first action of a message failed; a later action of the same
\* rule, an action of another rule of that message and an action on a later
\* message were attempted, and the run reached its summary
RunContinuedAfterFailure ==
    /\ pc = "done"
    /\ ~dry_run
    /\ Len(attempts) >= 4
    /\ attempts[1].result = "failed"
    /\ attempts[2].msg = attempts[1].msg /\ attempts[2].rule = attempts[1].rule
    /\ \E k \in 2..Len(attempts) :
          attempts[k].msg = attempts[1].msg /\ attempts[k].rule # attempts[1].rule
    /\ \E k \in 2..Len(attempts) : attempts[k].msg # attempts[1].msg

\* C3, as claimed: a connection-level failure raised in the loop is the last
\* thing the run does with the mail store, and the run has failed.
ConnectionFailureEndsRun ==
    \A i \in 1..Len(calls) :
        calls[i].result = "connerr" => (i = Len(calls) /\ pc = "failed")

\* C7: the live run that follows a dry run on the same rule set, message ids,
\* name restriction and fetched metadata ends with the processed count the dry
\* run ended with, whichever of its actions failed.
DryAndLiveProcessedAgree ==
    (run = 2 /\ pc = "done") => processed_count = prev_processed

\* C7 witness: the live run after a dry run processed a message, with one
\* action failing and another succeeding
LiveRunAfterDryRunEnded ==
    /\ run = 2
    /\ pc = "done"
    /\ processed_count >= 1
    /\ \E k \in 1..Len(attempts) : attempts[k].result = "failed"
    /\ \E k \in 1..Len(attempts) : attempts[k].result = "ok"

\* the error entries of the failed actions, in the order of the attempts
RECURSIVE FailedActionEntries(_)
FailedActionEntries(log) ==
    IF log = << >> THEN << >>
    ELSE (IF Head(log).result = "failed"
          THEN << ErrorEntry(Head(log).type, Head(log).msg) >>
          ELSE << >>) \o FailedActionEntries(Tail(log))

\* the error entries the calls of the run account for, in the order of the
\* calls: one per failed call of an action, one per message whose fetch raised
\* or whose envelope could not be read
RECURSIVE EntriesOfCalls(_)
EntriesOfCalls(log) ==
    IF log = << >> THEN << >>
    ELSE LET c == Head(log)
             entry ==
                 IF c.op = "fetch"
                 THEN IF c.result = "connerr"
                         \/ (c.result = "ok" /\ BuildRaises(Mailbox(c.msg)))
                      THEN << ErrorEntry("process", c.msg) >>
                      ELSE << >>
                 ELSE IF c.result # "ok"
                 THEN << ErrorEntry(c.action, c.msg) >>
                 ELSE << >>
         IN  entry \o EntriesOfCalls(Tail(log))

\* C8, as claimed: at the end of a live run the error list is exactly the
\* entries of the failed actions, in order.
ErrorsAreExactlyFailedActions ==
    (pc = "done" /\ ~dry_run) => errors = FailedActionEntries(attempts)

\* C8, amended: at the end of a live run the error list holds, in the order
\* the failures occurred, one entry per failed action and one entry per
\* message whose fetch or whose message construction raised, and nothing else.
ErrorsAreFailedActionsAndMessages ==
    (pc = "done" /\ ~dry_run) =>
        /\ errors = EntriesOfCalls(calls)
        /\ SelectSeq(errors, LAMBDA e : e.kind # "process")
             = FailedActionEntries(attempts)
        /\ Count(errors, LAMBDA e : e.kind = "process")
             = Cardinality({ i \in 1..Len(message_ids) :
                               \E k \in 1..Len(calls) :
                                   /\ calls[k].op = "fetch"
                                   /\ calls[k].msg = message_ids[i]
                                   /\ \/ calls[k].result = "connerr"
                                      \/ /\ calls[k].result = "ok"
                                         /\ BuildRaises(Mailbox(calls[k].msg)) })

\* C8 witness: a live run ended with a failed action, a message whose fetch or
\* construction raised and an action that succeeded
RunEndedWithMixedErrors ==
    /\ pc = "done"
    /\ ~dry_run
    /\ \E k \in 1..Len(errors) : errors[k].kind = "process"
    /\ \E k \in 1..Len(errors) : errors[k].kind # "process"
    /\ \E k \in 1..Len(attempts) : attempts[k].result = "ok"

\* the count the summary gives under a name; a count it does not give is 0
ReportedCount(name) ==
    IF name \in DOMAIN summary[1] THEN summary[1][name] ELSE 0

Succeeded(type) ==
    Count(attempts, LAMBDA a : a.type = type /\ a.result = "ok")

\* C9, as claimed: at the end of a live run the moved, deleted, marked and
\* copied counts of the summary are the numbers of moves, deletions, marks and
\* copies that succeeded.
CountsAreSuccessfulActions ==
    (pc = "done" /\ ~dry_run) =>
        /\ ReportedCount("moved") = Succeeded("move")
        /\ ReportedCount("deleted") = Succeeded("delete")
        /\ ReportedCount("marked") = Succeeded("mark")
        /\ ReportedCount("copied") = Succeeded("copy")

\* C10: in a live run a move (copy) call comes directly after the successful
\* create-folder call of the same action, message and folder; after a failed
\* create-folder no move (copy) follows and the action leaves one error; and
\* the moved count is the number of move calls that returned.
MoveOnlyAfterFolderCreated ==
    ~dry_run =>
        /\ \A p \in 1..Len(calls) :
              calls[p].op \in { "move", "copy" } =>
                  /\ p > 1
                  /\ calls[p - 1] = Call("create_folder", calls[p].msg,
                                         calls[p].arg, calls[p].op, "ok")
        /\ \A p \in 1..Len(calls) :
              (calls[p].op = "create_folder" /\ calls[p].result # "ok") =>
                  (p < Len(calls) => calls[p + 1].op \notin { "move", "copy" })
        /\ \A kind \in { "move", "copy" } :
              Count(errors, LAMBDA e : e.kind = kind)
                = Count(calls, LAMBDA c : c.action = kind /\ c.result # "ok")
        /\ moved_count
             = Count(calls, LAMBDA c : c.op = "move" /\ c.result = "ok")

\* C10 witness: one move stopped at a failed folder creation, another created
\* its folder and moved the message
MoveAfterCreateAndMoveSkipped ==
    /\ ~dry_run
    /\ moved_count >= 1
    /\ \E p \in 1..Len(calls) :
          /\ calls[p].op = "create_folder"
          /\ calls[p].action = "move"
          /\ calls[p].result # "ok"
    /\ \E p \in 1..Len(calls) : calls[p].op = "move" /\ calls[p].result = "ok"

-----------------------------------------------------------------------------
\* the message ids met so far whose envelope came and could be read and that
\* have a matching rule left after the name restriction
CountedIds ==
    { i \in 1..Len(message_ids) :
        FetchedOk(message_ids[i]) /\ MatchingOf(message_ids[i]) # << >> }

\* C11: all along a run the processed count is the number of message ids whose
\* metadata was resolved and that have at least one matching rule after the
\* name restriction: such a message adds exactly 1, however many rules match
\* and whatever its actions do, and any other message adds 0; the summary
\* prints that number.
ProcessedIsMatchedMessages ==
    LET counted == Cardinality(CountedIds)
    IN  /\ processed_count = counted
        /\ pc = "done" => summary[1].processed = counted

\* C11 witness: a live run ended with one message counted once, two rules
\* matching it and its first action failed, and another message id adding 0
ProcessedOnceForTwoRules ==
    /\ pc = "done"
    /\ ~dry_run
    /\ processed_count = 1
    /\ \E i \in CountedIds :
          /\ Len(MatchingOf(message_ids[i])) >= 2
          /\ \E k \in 1..Len(attempts) :
                attempts[k].msg = message_ids[i] /\ attempts[k].result = "failed"
    /\ \E i \in 1..Len(message_ids) :
          Fetched(message_ids[i]) /\ i \notin CountedIds

-----------------------------------------------------------------------------
\* the step in which the fetch of the current message id returns no entry
SkipStep ==
    /\ pc = "fetch"
    /\ Len(calls') = Len(calls) + 1
    /\ calls'[Len(calls')] = Call("fetch", message_ids[idx], "", "fetch", "absent")

\* C12: when the fetch returns no entry for a message id, that step leaves the
\* processed count, the action counts, the error list and the announced
\* actions as they were, makes no other call, and goes on to the next id; and
\* no mutating call is ever made for such an id.
AbsentEnvelopeIsSkipped ==
    /\ [][SkipStep =>
            /\ UNCHANGED <<countVars, errors, attempts, message_ids>>
            /\ calls' = Append(calls, calls'[Len(calls')])
            /\ idx' = idx + 1
            /\ pc' = "fetch"]_vars
    /\ [](\A k \in 1..Len(calls) :
            calls[k].result = "absent" =>
                /\ \A j \in 1..Len(calls) :
                      calls[j].msg = calls[k].msg => calls[j].op = "fetch"
                /\ \A j \in 1..Len(errors) : errors[j].msg # calls[k].msg
                /\ \A j \in 1..Len(attempts) : attempts[j].msg # calls[k].msg)

\* C12 witness: a live run ended in which an id was skipped and a later id
\* had an action executed
SkippedThenActed ==
    /\ pc = "done"
    /\ ~dry_run
    /\ \E k \in 1..Len(calls) :
          /\ calls[k].result = "absent"
          /\ \E j \in (k + 1)..Len(calls) : calls[j].op # "fetch"

-----------------------------------------------------------------------------
\* the rules that match a message id, before the name restriction
UnrestrictedMatch(msg_id) ==
    match_message(filters, EnvelopeMessage(Mailbox(msg_id)))

\* the message ids met so far whose envelope was read and that have a
\* matching rule of the given name
IdsMatchingName(name) ==
    { i \in 1..Len(message_ids) :
        /\ FetchedOk(message_ids[i])
        /\ ~BuildRaises(Mailbox(message_ids[i]))
        /\ LET found == UnrestrictedMatch(message_ids[i])
           IN  \E r \in 1..Len(found) : found[r].name = name }

\* what the restriction to a name means for the run so far: every announced
\* action belongs to a matching rule of that name; the messages counted are
\* those with a matching rule of that name; a message whose envelope was read
\* and that has no matching rule of that name has no action, no call and no
\* error
RestrictedTo(name) ==
    LET named == IdsMatchingName(name)
    IN
    /\ \A k \in 1..Len(attempts) :
          /\ attempts[k].rule = name
          /\ \E i \in named : message_ids[i] = attempts[k].msg
    /\ processed_count = Cardinality(named)
    /\ \A i \in 1..Len(message_ids) :
          (/\ FetchedOk(message_ids[i])
           /\ ~BuildRaises(Mailbox(message_ids[i]))
           /\ i \notin named) =>
              /\ \A k \in 1..Len(attempts) : attempts[k].msg # message_ids[i]
              /\ \A k \in 1..Len(errors) : errors[k].msg # message_ids[i]
              /\ \A k \in 1..Len(calls) :
                    calls[k].msg = message_ids[i] => calls[k].op = "fetch"

\* C13, as claimed: whenever a name restriction is given, the run is restricted
\* to the matching rules of exactly that name.
RestrictionGivenIsApplied ==
    filter_name # None => RestrictedTo(filter_name[1])

\* C13, amended: whenever a non-empty name restriction is given, only matching
\* rules of exactly that name have their actions executed, and a message with
\* no matching rule of that name is not counted, has no action attempted and
\* leaves no error.
NonEmptyRestrictionIsApplied ==
    (filter_name # None /\ filter_name[1] # "") => RestrictedTo(filter_name[1])

\* C13 witness: a live run restricted to a name ended; of two rules matching
\* one message only the named one was executed, and another message, matched
\* only by a rule of another name, was left alone
RestrictedRunEnded ==
    /\ pc = "done"
    /\ ~dry_run
    /\ filter_name # None /\ filter_name[1] # ""
    /\ \E k \in 1..Len(attempts) : Len(UnrestrictedMatch(attempts[k].msg)) >= 2
    /\ \E i \in 1..Len(message_ids) :
          /\ FetchedOk(message_ids[i])
          /\ ~BuildRaises(Mailbox(message_ids[i]))
          /\ UnrestrictedMatch(message_ids[i]) # << >>
          /\ i \notin IdsMatchingName(filter_name[1])

-----------------------------------------------------------------------------
\* the five string operators
StringOperators ==
    { "contains", "is", "starts with", "ends with", "doesn't contain" }

\* the lower-case form of a generated text: of the characters generated, "A"
\* is the one that has a lower-case form of its own
Folded(s) == [ i \in 1..Len(s) |-> IF s[i] = "A" THEN "a" ELSE s[i] ]

\* l occurs in f: f is some text, then l, then some text
OccursIn(l, f) ==
    \E i \in 1..(Len(f) + 1) :
        i + Len(l) - 1 <= Len(f) /\ SubSeq(f, i, i + Len(l) - 1) = l

\* the reference meaning of a string operator on two texts
Reference(operator, f, l) ==
    CASE operator = "contains"        -> OccursIn(l, f)
      [] operator = "is"              -> f = l
      [] operator = "starts with"     ->
            Len(l) <= Len(f) /\ SubSeq(f, 1, Len(l)) = l
      [] operator = "ends with"       ->
            Len(l) <= Len(f) /\ SubSeq(f, Len(f) - Len(l) + 1, Len(f)) = l
      [] operator = "doesn't contain" -> ~OccursIn(l, f)

\* the evaluator has run on a string operator and a text field that is present
TextConditionEvaluated ==
    /\ e_pc = "done"
    /\ e_condition.field \in TextFields
    /\ e_condition.operator \in StringOperators
    /\ e_message[KwName(e_condition.field)] # None

\* C14: a condition with a string operator on a present text field evaluates
\* to the reference operator applied to the lower-cased field and the
\* lower-cased literal.
TextConditionsIgnoreCase ==
    TextConditionEvaluated =>
        e_result = Reference(e_condition.operator,
                             Folded(e_message[KwName(e_condition.field)][1]),
                             Folded(e_condition.value))

\* C14 witness: an "is" condition is true of a field that differs from the
\* literal by case only
TextEqualUpToCase ==
    /\ TextConditionEvaluated
    /\ e_condition.operator = "is"
    /\ e_message[KwName(e_condition.field)][1] # e_condition.value
    /\ e_condition.value # << >>
    /\ e_result = TRUE

-----------------------------------------------------------------------------
\* what Python's int() gives for the generated literals that it accepts; it
\* raises ValueError for every other generated literal
ParsedLiterals ==
    { << << "1" >>, 1 >>, << << "0" >>, 0 >>, << << "2" >>, 2 >>,
      << << "1", "0" >>, 10 >>, << << "-", "1" >>, 0 - 1 >>,
      << << " ", "2", " " >>, 2 >>, << << "+", "2" >>, 2 >> }

\* the evaluator has run on a numeric operator and a size that is present
SizeConditionEvaluated ==
    /\ e_pc = "done"
    /\ e_condition.field = "size"
    /\ e_condition.operator \in NumericOperators
    /\ e_message.size # None

\* C15: a size condition with a present size s and a literal that parses to
\* the integer v is s > v, s < v, s = v or s # v according to its operator, and
\* is false for all four operators when the literal does not parse.
SizeComparesAsIntegers ==
    SizeConditionEvaluated =>
        LET s == e_message.size[1]
            parsed == { p \in ParsedLiterals : p[1] = e_condition.value }
        IN  IF parsed = {} THEN e_result = FALSE
            ELSE \A p \in parsed :
                   e_result =
                     CASE e_condition.operator = "greater than" -> s > p[2]
                       [] e_condition.operator = "less than"    -> s < p[2]
                       [] e_condition.operator = "equals"       -> s = p[2]
                       [] e_condition.operator = "not equals"   -> s # p[2]

\* C15 witness: a size is found larger than a literal written with blanks
SizeGreaterThanPaddedLiteral ==
    /\ SizeConditionEvaluated
    /\ e_condition.operator = "greater than"
    /\ e_condition.value = << " ", "2", " " >>
    /\ e_message.size[1] = 3
    /\ e_result = TRUE

-----------------------------------------------------------------------------
(* filter_engine.py: the rule model as pydantic validates it.  A key of the  *)
(* parsed YAML is left out (Omitted), given as null (Null) or given a value. *)
(* pydantic runs a field validator on a value that is given, never on the    *)
(* default a left-out key falls back to.                                     *)

Omitted == [ given |-> FALSE, value |-> None ]

Null == [ given |-> TRUE, value |-> None ]

Given(v) == [ given |-> TRUE, value |-> Some(v) ]

\* Python's "not v" for an Optional[str]
Falsy(v) == v = None \/ v[1] = ""

\* FilterCondition.field
validate_field(raw) == raw.given /\ raw.value # None /\ raw.value[1] \in FilterField

\* FilterCondition.operator
validate_operator(raw) ==
    raw.given /\ raw.value # None /\ raw.value[1] \in FilterOperator

\* FilterCondition: field, operator and value are required
FilterCondition_accepts(raw) ==
    /\ validate_field(raw.field)
    /\ validate_operator(raw.operator)
    /\ raw.value.given /\ raw.value.value # None

\* FilterActionConfig.type
validate_action_type(raw) ==
    raw.given /\ raw.value # None /\ raw.value[1] \in FilterAction

\* FilterActionConfig.folder: Optional, default None; the validator runs on a
\* given value only
validate_folder(raw, type) ==
    IF ~raw.given THEN TRUE
    ELSE ~(type \in { "move", "copy" } /\ Falsy(raw.value))

\* FilterActionConfig.flag: Optional, default None; the validator runs on a
\* given value only
validate_flag(raw, type) ==
    IF ~raw.given THEN TRUE
    ELSE ~(type = "mark" /\ Falsy(raw.value))

FilterActionConfig_accepts(raw) ==
    /\ validate_action_type(raw.type)
    /\ validate_folder(raw.folder, raw.type.value[1])
    /\ validate_flag(raw.flag, raw.type.value[1])

\* the mutant: a priority of 0 passes
validate_priority_nonnegative(raw) ==
    IF ~raw.given THEN TRUE ELSE raw.value # None /\ raw.value[1] >= 0

\* FilterRule.priority: default 1
validate_priority(raw) ==
    IF ~raw.given THEN TRUE ELSE raw.value # None /\ raw.value[1] >= 1

\* FilterRule.conditions: required, every item a FilterCondition, not empty
validate_conditions(raw) ==
    /\ raw.given /\ raw.value # None
    /\ \A k \in 1..Len(raw.value[1]) : FilterCondition_accepts(raw.value[1][k])
    /\ raw.value[1] # << >>

\* FilterRule.actions: required, every item a FilterActionConfig, not empty
validate_actions(raw) ==
    /\ raw.given /\ raw.value # None
    /\ \A k \in 1..Len(raw.value[1]) : FilterActionConfig_accepts(raw.value[1][k])
    /\ raw.value[1] # << >>

FilterRule_accepts(raw) ==
    /\ raw.name.given /\ raw.name.value # None
    /\ ~raw.enabled.given \/ raw.enabled.value # None
    /\ validate_priority(raw.priority)
    /\ validate_conditions(raw.conditions)
    /\ validate_actions(raw.actions)

\* the FilterCondition built from accepted data
FilterCondition_of(raw) ==
    Cond(raw.field.value[1], raw.operator.value[1], raw.value.value[1])

\* the FilterActionConfig built from accepted data
FilterActionConfig_of(raw) ==
    Action(raw.type.value[1], raw.folder.value, raw.flag.value)

\* the FilterRule built from accepted data, defaults filled in
FilterRule_of(raw) ==
    [ name       |-> raw.name.value[1],
      enabled    |-> IF raw.enabled.given THEN raw.enabled.value[1] ELSE TRUE,
      priority   |-> IF raw.priority.given THEN raw.priority.value[1] ELSE 1,
      conditions |-> [ k \in 1..Len(raw.conditions.value[1]) |->
                         FilterCondition_of(raw.conditions.value[1][k]) ],
      actions    |-> [ k \in 1..Len(raw.actions.value[1]) |->
                         FilterActionConfig_of(raw.actions.value[1][k]) ] ]

-----------------------------------------------------------------------------
(* filter_engine.py: FilterEngine._load_filters and get_filter_summary *)

\* FilterConfig(**data): filters defaults to the empty list
FilterConfig_accepts(raw) ==
    IF ~raw.given THEN TRUE
    ELSE /\ raw.value # None
         /\ \A i \in 1..Len(raw.value[1]) : FilterRule_accepts(raw.value[1][i])

FilterConfig_of(raw) ==
    IF ~raw.given THEN << >>
    ELSE [ i \in 1..Len(raw.value[1]) |-> FilterRule_of(raw.value[1][i]) ]

\* the file does not exist: empty FilterConfig; yaml.safe_load or
\* FilterConfig(**data) raises: caught, empty FilterConfig; else the document
load_filters(document) ==
    IF document.kind = "missing"
    THEN [ filters |-> << >>, outcome |-> "missing" ]
    ELSE IF document.kind = "malformed"
    THEN [ filters |-> << >>, outcome |-> "error" ]
    ELSE IF ~FilterConfig_accepts(document.filters)
    THEN [ filters |-> << >>, outcome |-> "error" ]
    ELSE [ filters |-> FilterConfig_of(document.filters), outcome |-> "loaded" ]

\* the mutant: the rules that are enabled are the ones reported
get_filter_summary_enabled_only(rule_list) ==
    LET shown == SelectSeq(rule_list, LAMBDA f : f.enabled)
    IN  [ total_filters   |-> Len(rule_list),
          enabled_filters |-> Len(shown),
          filters         |->
              [ i \in 1..Len(shown) |->
                  [ name             |-> shown[i].name,
                    enabled          |-> shown[i].enabled,
                    priority         |-> shown[i].priority,
                    conditions_count |-> Len(shown[i].conditions),
                    actions_count    |-> Len(shown[i].actions) ] ] ]

\* FilterEngine.get_filter_summary
get_filter_summary(rule_list) ==
    [ total_filters   |-> Len(rule_list),
      enabled_filters |-> Len(SelectSeq(rule_list, LAMBDA f : f.enabled)),
      filters         |->
          [ i \in 1..Len(rule_list) |->
              [ name             |-> rule_list[i].name,
                enabled          |-> rule_list[i].enabled,
                priority         |-> rule_list[i].priority,
                conditions_count |-> Len(rule_list[i].conditions),
                actions_count    |-> Len(rule_list[i].actions) ] ] ]

\* the mutant: the rule set is sorted where it stands
filters_after_sorted_in_place(rule_list) == sorted_filters(rule_list)

\* self.filters.filters once sorted(...) has run on it: sorted() builds a new
\* list
filters_after_sorted(rule_list) == rule_list

\* an Optional field as model_dump() writes it: always written, None as null
Dumped(v) == IF v = None THEN Null ELSE Given(v[1])

\* filter_rule.model_dump(): every field of the rule written out
model_dump(rule) ==
    [ name       |-> Given(rule.name),
      enabled    |-> Given(rule.enabled),
      priority   |-> Given(rule.priority),
      conditions |->
          Given([ k \in 1..Len(rule.conditions) |->
                    [ field    |-> Given(rule.conditions[k].field),
                      operator |-> Given(rule.conditions[k].operator),
                      value    |-> Given(rule.conditions[k].value) ] ]),
      actions    |->
          Given([ k \in 1..Len(rule.actions) |->
                    [ type   |-> Given(rule.actions[k].type),
                      folder |-> Dumped(rule.actions[k].folder),
                      flag   |-> Dumped(rule.actions[k].flag) ] ]) ]

\* the mutant: the first error ends the validation
RECURSIVE validate_from_fail_fast(_, _)
validate_from_fail_fast(rule_list, i) ==
    IF i > Len(rule_list) THEN << >>
    ELSE IF FilterRule_accepts(model_dump(rule_list[i]))
    THEN validate_from_fail_fast(rule_list, i + 1)
    ELSE << [ index |-> i, name |-> rule_list[i].name ] >>

\* the loop of validate_filters from the i-th rule on: model_validate of the
\* dumped rule, and f"Filter {i+1} ({filter_rule.name}): {e}" when it raises
RECURSIVE validate_from(_, _)
validate_from(rule_list, i) ==
    IF i > Len(rule_list) THEN << >>
    ELSE (IF FilterRule_accepts(model_dump(rule_list[i]))
          THEN << >>
          ELSE << [ index |-> i, name |-> rule_list[i].name ] >>)
         \o validate_from(rule_list, i + 1)

\* FilterEngine.validate_filters; a FilterConfig is never falsy, so "No
\* filters loaded" is not returned
validate_filters(rule_list) == validate_from(rule_list, 1)

-----------------------------------------------------------------------------
(* Inputs of the loader *)

\* the longest rules file, in rules
MaxDocRules == 2

RawCond(field, operator, value) ==
    [ field |-> field, operator |-> operator, value |-> value ]

RawAction(type, folder, flag) ==
    [ type |-> type, folder |-> folder, flag |-> flag ]

RawRule(name, enabled, priority, conditions, actions) ==
    [ name |-> name, enabled |-> enabled, priority |-> priority,
      conditions |-> conditions, actions |-> actions ]

GoodCond == RawCond(Given("subject"), Given("contains"), Given(<< "x" >>))

OtherCond == RawCond(Given("size"), Given("greater than"), Given(<< "1" >>))

DeleteAction == RawAction(Given("delete"), Omitted, Omitted)

\* actions as a rules file may write them
RawActions ==
    { RawAction(Given(t), f, Omitted) :
        t \in { "move", "copy" },
        f \in { Omitted, Null, Given(""), Given("Junk") } }
      \cup { RawAction(Given("mark"), Omitted, g) :
               g \in { Omitted, Null, Given(""), Given("Seen") } }
      \cup { DeleteAction,
             RawAction(Given("delete"), Given("Junk"), Omitted),
             RawAction(Given("archive"), Given("Junk"), Omitted),
             RawAction(Omitted, Given("Junk"), Omitted) }

\* condition lists as a rules file may write them
RawConditionLists ==
    { Omitted, Null, Given(<< >>), Given(<< GoodCond >>),
      Given(<< GoodCond, OtherCond >>),
      Given(<< RawCond(Given("sender"), Given("contains"), Given(<< "x" >>)) >>),
      Given(<< RawCond(Given("subject"), Given("matches"), Given(<< "x" >>)) >>),
      Given(<< GoodCond, RawCond(Omitted, Given("is"), Given(<< "x" >>)) >>),
      Given(<< RawCond(Given("subject"), Given("is"), Omitted) >>),
      Given(<< RawCond(Given("size"), Given("contains"), Given(<< "1" >>)) >>),
      Given(<< RawCond(Given("body"), Given("less than"), Given(<< "x" >>)) >>) }

\* rules as a rules file may write them: every action in a rule otherwise
\* well formed, and every other part in a rule whose action is a deletion
RawRules ==
    { RawRule(Given("act"), Omitted, Given(2), Given(<< GoodCond >>),
              Given(<< a >>)) : a \in RawActions }
      \cup { RawRule(Given("two"), Given(FALSE), Omitted, Given(<< GoodCond >>),
                     Given(<< DeleteAction, a >>)) :
               a \in { RawAction(Given("move"), Given("Junk"), Omitted),
                       RawAction(Given("mark"), Omitted, Given("")) } }
      \cup { RawRule(Given("cond"), Omitted, Omitted, c, Given(<< DeleteAction >>)) :
               c \in RawConditionLists }
      \cup { RawRule(Given("prio"), Given(FALSE), q, Given(<< GoodCond >>),
                     Given(<< DeleteAction >>)) :
               q \in { Given(0), Given(1), Given(3), Given(0 - 1), Null } }
      \cup { RawRule(Omitted, Omitted, Omitted, Given(<< GoodCond >>),
                     Given(<< DeleteAction >>)),
             RawRule(Given("none"), Omitted, Omitted, Given(<< GoodCond >>),
                     Omitted),
             RawRule(Given("empty"), Omitted, Omitted, Given(<< GoodCond >>),
                     Given(<< >>)) }

\* the rules files without rules: missing, unreadable as a YAML mapping, a
\* mapping without the key "filters" or with a null under it
EmptyDocuments ==
    { [ kind |-> k, filters |-> Omitted ] : k \in { "missing", "malformed" } }
      \cup { [ kind |-> "mapping", filters |-> f ] : f \in { Omitted, Null } }

\* the messages the loaded engine is asked to match
LoadMessages ==
    { MessageData([ subject |-> Some(<< "a", "x" >>), size |-> Some(3) ]) }

\* the rules file that is a mapping with the given rules under "filters"
DocumentOf(rules) == [ kind |-> "mapping", filters |-> Given(rules) ]

-----------------------------------------------------------------------------
(* The filter engine constructed on one rules file, then asked its summary *)

InitLoad ==
    /\ EvalIdle
    /\ MatchIdle
    /\ ApplyIdle
    /\ SessionIdle
    /\ l_pc = "new"
    /\ \/ l_document \in { Some(d) : d \in EmptyDocuments }
       \/ \E n \in 0..MaxDocRules :
            \E rules \in [ 1..n -> RawRules ] :
                l_document = Some(DocumentOf(rules))
    /\ l_filters = << >>
    /\ l_outcome = "none"
    /\ l_summary = None
    /\ l_validation = None
    /\ l_matched = None

\* FilterEngine.__init__: self._load_filters()
Load ==
    /\ l_pc = "new"
    /\ l_filters' = load_filters(l_document[1]).filters
    /\ l_outcome' = load_filters(l_document[1]).outcome
    /\ l_pc' = "loaded"
    /\ UNCHANGED <<l_document, l_summary, l_validation, l_matched, evalVars,
                   matchVars, applyVars, sessionVars>>

\* get_filter_summary(), at any time after the construction
GetSummary ==
    /\ l_pc # "new"
    /\ l_summary' = Some(get_filter_summary(l_filters))
    /\ l_pc' = "summarized"
    /\ UNCHANGED <<l_document, l_filters, l_outcome, l_validation, l_matched,
                   evalVars, matchVars, applyVars, sessionVars>>

\* validate_filters(), at any time after the construction
ValidateFilters ==
    /\ l_pc # "new"
    /\ l_validation' = Some(validate_filters(l_filters))
    /\ UNCHANGED <<l_pc, l_document, l_filters, l_outcome, l_summary, l_matched,
                   evalVars, matchVars, applyVars, sessionVars>>

\* match_message(message), as test-filters and apply-filters call it, at any
\* time after the construction
MatchLoaded ==
    /\ l_pc # "new"
    /\ \E message \in LoadMessages :
          l_matched' = Some(match_message(l_filters, message))
    /\ l_filters' = filters_after_sorted(l_filters)
    /\ UNCHANGED <<l_pc, l_document, l_outcome, l_summary, l_validation,
                   evalVars, matchVars, applyVars, sessionVars>>

NextLoad == Load \/ GetSummary \/ ValidateFilters \/ MatchLoaded

SpecLoad == InitLoad /\ [][NextLoad]_vars

-----------------------------------------------------------------------------
(* What the properties of the loader read off a rules file *)

\* the rules the loaded file writes, none for a file that is no mapping with
\* a list under "filters"
WrittenRules ==
    IF l_document[1].kind = "mapping" /\ l_document[1].filters.value # None
    THEN l_document[1].filters.value[1]
    ELSE << >>

\* a key whose value is missing or empty
Lacking(raw) == ~raw.given \/ raw.value = None \/ raw.value[1] = ""

\* an action as written breaks the payload rule: a move or copy without a
\* non-empty folder, a mark without a non-empty flag
BreaksPayloadRule(raw) ==
    /\ raw.type.given
    /\ \/ raw.type.value[1] \in { "move", "copy" } /\ Lacking(raw.folder)
       \/ raw.type.value[1] = "mark" /\ Lacking(raw.flag)

\* the actions a rule as written lists
WrittenActions(raw) ==
    IF raw.actions.given /\ raw.actions.value # None
    THEN raw.actions.value[1] ELSE << >>

\* the conditions a rule as written lists
WrittenConditions(raw) ==
    IF raw.conditions.given /\ raw.conditions.value # None
    THEN raw.conditions.value[1] ELSE << >>

\* a token is written and is one of the enumeration
TokenOf(raw, enumeration) ==
    raw.given /\ raw.value # None /\ raw.value[1] \in enumeration

\* a rule as written breaks the rule invariants: a priority below 1, no
\* condition, no action, a field, operator or action type outside the
\* enumerations
BreaksRuleInvariants(raw) ==
    \/ raw.priority.given /\ (raw.priority.value = None \/ raw.priority.value[1] < 1)
    \/ WrittenConditions(raw) = << >>
    \/ WrittenActions(raw) = << >>
    \/ \E k \in 1..Len(WrittenConditions(raw)) :
          \/ ~TokenOf(WrittenConditions(raw)[k].field, FilterField)
          \/ ~TokenOf(WrittenConditions(raw)[k].operator, FilterOperator)
    \/ \E k \in 1..Len(WrittenActions(raw)) :
          ~TokenOf(WrittenActions(raw)[k].type, FilterAction)

\* C16, as claimed: every action of a loaded rule set has its payload, a move
\* or copy a non-empty folder and a mark a non-empty flag, and a rules file in
\* which an action lacks its payload is rejected.
LoadedActionsHavePayload ==
    l_pc # "new" =>
        /\ \A i \in 1..Len(l_filters) :
              \A k \in 1..Len(l_filters[i].actions) :
                  LET a == l_filters[i].actions[k]
                  IN  /\ a.type \in { "move", "copy" } =>
                            (a.folder # None /\ a.folder[1] # "")
                      /\ a.type = "mark" => (a.flag # None /\ a.flag[1] # "")
        /\ (\E i \in 1..Len(WrittenRules) :
              \E k \in 1..Len(WrittenActions(WrittenRules[i])) :
                  BreaksPayloadRule(WrittenActions(WrittenRules[i])[k]))
             => (l_filters = << >> /\ l_outcome = "error")

\* C17: every rule of a loaded rule set has a priority of at least 1, at least
\* one condition and one action, and fields, operators and action types of
\* the enumerations; a rules file with a rule that breaks any of these is
\* rejected.
LoadedRulesWellFormed ==
    l_pc # "new" =>
        /\ \A i \in 1..Len(l_filters) :
              /\ l_filters[i].priority >= 1
              /\ Len(l_filters[i].conditions) >= 1
              /\ Len(l_filters[i].actions) >= 1
              /\ \A k \in 1..Len(l_filters[i].conditions) :
                    /\ l_filters[i].conditions[k].field \in FilterField
                    /\ l_filters[i].conditions[k].operator \in FilterOperator
              /\ \A k \in 1..Len(l_filters[i].actions) :
                    l_filters[i].actions[k].type \in FilterAction
        /\ (\E i \in 1..Len(WrittenRules) : BreaksRuleInvariants(WrittenRules[i]))
             => (l_filters = << >> /\ l_outcome = "error")

\* C17 witness: a rules file whose first rule is well formed and whose second
\* rule has priority 0 was rejected
FileWithPriorityZeroRejected ==
    /\ l_pc = "loaded"
    /\ Len(WrittenRules) = 2
    /\ ~BreaksRuleInvariants(WrittenRules[1])
    /\ WrittenRules[2].priority = Given(0)
    /\ l_filters = << >>
    /\ l_outcome = "error"

-----------------------------------------------------------------------------
\* a rule as written is invalid: it breaks the rule invariants, or one of its
\* actions the payload rule, or it lacks its name or a condition its value
RuleInvalid(raw) ==
    \/ BreaksRuleInvariants(raw)
    \/ \E k \in 1..Len(WrittenActions(raw)) :
          BreaksPayloadRule(WrittenActions(raw)[k])
    \/ ~raw.name.given \/ raw.name.value = None
    \/ raw.enabled.given /\ raw.enabled.value = None
    \/ \E k \in 1..Len(WrittenConditions(raw)) :
          ~WrittenConditions(raw)[k].value.given

\* the rules file is missing, is no mapping, has a null for its rules, or
\* writes an invalid rule
DocumentUnusable ==
    \/ l_document[1].kind \in { "missing", "malformed" }
    \/ l_document[1].filters.given /\ l_document[1].filters.value = None
    \/ \E i \in 1..Len(WrittenRules) : RuleInvalid(WrittenRules[i])

\* C18, as claimed: loading always ends, with an empty rule set for a rules
\* file that is missing, malformed or invalid, and otherwise with every rule
\* of the file in the order of the file.
LoadIsAllOrNothing ==
    l_pc # "new" =>
        /\ l_outcome \in { "missing", "error", "loaded" }
        /\ IF DocumentUnusable THEN l_filters = << >>
           ELSE /\ Len(l_filters) = Len(WrittenRules)
                /\ \A i \in 1..Len(WrittenRules) :
                      l_filters[i] = FilterRule_of(WrittenRules[i])

\* C19: the summary gives the number of rules as total, the number of enabled
\* rules as enabled count, at most the total, and one entry per rule, in the
\* order of the rule set, with the rule's name, enabled flag, priority, number
\* of conditions and number of actions.
SummaryProjectsRuleSet ==
    l_pc = "summarized" =>
        LET report == l_summary[1]
        IN  /\ report.total_filters = Len(l_filters)
            /\ report.enabled_filters
                 = Cardinality({ i \in 1..Len(l_filters) : l_filters[i].enabled })
            /\ report.enabled_filters <= report.total_filters
            /\ Len(report.filters) = Len(l_filters)
            /\ \A i \in 1..Len(l_filters) :
                  /\ report.filters[i].name = l_filters[i].name
                  /\ report.filters[i].enabled = l_filters[i].enabled
                  /\ report.filters[i].priority = l_filters[i].priority
                  /\ report.filters[i].conditions_count
                       = Len(l_filters[i].conditions)
                  /\ report.filters[i].actions_count = Len(l_filters[i].actions)

\* C19 witness: the summary of a rule set of a disabled rule with two actions
\* followed by an enabled rule with two conditions
SummaryOfMixedRuleSet ==
    /\ l_pc = "summarized"
    /\ Len(l_filters) = 2
    /\ ~l_filters[1].enabled /\ Len(l_filters[1].actions) = 2
    /\ l_filters[2].enabled /\ Len(l_filters[2].conditions) = 2
    /\ l_summary[1].enabled_filters = 1

-----------------------------------------------------------------------------
\* the actions of the given rules, rule after rule, each rule's in the order
\* it declares them
RECURSIVE ActionsOfRules(_, _)
ActionsOfRules(msg_id, rules) ==
    IF rules = << >> THEN << >>
    ELSE [ k \in 1..Len(Head(rules).actions) |->
             [ msg |-> msg_id, rule |-> Head(rules).name, index |-> k,
               type |-> Head(rules).actions[k].type ] ]
           \o ActionsOfRules(msg_id, Tail(rules))

\* the actions due for the given message ids, id after id: those of the
\* matching rules, in match order, of every id whose envelope came
RECURSIVE ExpectedAttempts(_)
ExpectedAttempts(ids) ==
    IF ids = << >> THEN << >>
    ELSE (IF FetchedOk(Head(ids))
          THEN ActionsOfRules(Head(ids), MatchingOf(Head(ids)))
          ELSE << >>) \o ExpectedAttempts(Tail(ids))

\* the place of a message id in the ids of the run
PlaceOf(msg_id) == CHOOSE i \in 1..Len(message_ids) : message_ids[i] = msg_id

\* C20: in a live run the attempts are, in this order and each once: for each
\* message id in the order supplied, for each matching rule in match order,
\* for each action of the rule in declared order, one attempt, whatever the
\* earlier attempts on the message did; and every mail-store call for one id
\* comes before every call for the next.
AttemptsFollowLoopOrder ==
    ~dry_run =>
        /\ \A i, j \in 1..Len(calls) :
              i < j => PlaceOf(calls[i].msg) <= PlaceOf(calls[j].msg)
        /\ pc = "done" =>
              [ k \in 1..Len(attempts) |->
                  [ msg |-> attempts[k].msg, rule |-> attempts[k].rule,
                    index |-> attempts[k].index, type |-> attempts[k].type ] ]
                = ExpectedAttempts(message_ids)

\* C20 witness: a live run over two ids ended; an action was attempted on a
\* message right after its deletion succeeded, and another right after an
\* action on its message failed
AttemptedAfterDeleteAndFailure ==
    /\ pc = "done"
    /\ ~dry_run
    /\ \E k \in 1..(Len(attempts) - 1) :
          /\ attempts[k].type = "delete" /\ attempts[k].result = "ok"
          /\ attempts[k + 1].msg = attempts[k].msg
    /\ \E k \in 1..(Len(attempts) - 1) :
          /\ attempts[k].result = "failed"
          /\ attempts[k + 1].msg = attempts[k].msg
    /\ \E k \in 1..Len(attempts) : attempts[k].msg # attempts[1].msg

-----------------------------------------------------------------------------
\* the payload a mail-store call made for the action carries
PayloadOf(action) ==
    CASE action.type \in { "move", "copy" } -> action.folder[1]
      [] action.type = "mark"               -> action.flag[1]
      [] OTHER                              -> ""

\* the rule is enabled, every condition of it is true of the message, and
\* its name is the restriction when one is in force
RuleActsOn(rule, msg_id) ==
    /\ rule.enabled
    /\ ConditionsHoldOf[PlaceInApplyRules(rule)][msg_id]
    /\ (filter_name # None /\ filter_name[1] # "") => rule.name = filter_name[1]

\* the places of the rules that act on the message built for the id; none
\* when the message cannot be built
ActingOn(msg_id) ==
    { r \in 1..Len(filters) : RuleActsOn(filters[r], msg_id) }

\* the k-th call belongs to an action of one of the given rules, and the
\* envelope of its message came before the call was made
Justified(k, acting) ==
    /\ ~dry_run
    /\ \E j \in 1..(k - 1) :
          /\ calls[j].op = "fetch"
          /\ calls[j].msg = calls[k].msg
          /\ calls[j].result = "ok"
    /\ \E i \in acting :
          \E a \in 1..Len(filters[i].actions) :
              /\ filters[i].actions[a].type = calls[k].action
              /\ PayloadOf(filters[i].actions[a]) = calls[k].arg
              /\ calls[k].op \in { calls[k].action, "create_folder" }

-----------------------------------------------------------------------------
\* the operator is of the kind of the field: a string operator on a text
\* field, a numeric or boolean operator on size or has_attachment
Compatible(condition) ==
    IF condition.field \in { "size", "has_attachment" }
    THEN condition.operator \in NumericOperators
    ELSE condition.operator \in FilterOperator \ NumericOperators

\* C22, as claimed: every condition of a loaded rule set has an operator of
\* the kind of its field.
LoadedConditionsCompatible ==
    l_pc # "new" =>
        \A i \in 1..Len(l_filters) :
            \A k \in 1..Len(l_filters[i].conditions) :
                Compatible(l_filters[i].conditions[k])

-----------------------------------------------------------------------------
\* C23: the evaluator ends without an exception and with a boolean for every
\* field, operator, literal and message; a string operator on size or
\* has_attachment, and a numeric or boolean operator on a text field, give
\* false.
EvaluateIsTotal ==
    e_pc = "done" =>
        /\ ~e_raised
        /\ e_result \in BOOLEAN
        /\ (/\ e_condition.field \in { "size", "has_attachment" }
            /\ e_condition.operator \notin NumericOperators) => e_result = FALSE
        /\ (/\ e_condition.field \in TextFields
            /\ e_condition.operator \in NumericOperators) => e_result = FALSE

\* C23 witness: a size condition whose literal is no integer was evaluated on
\* a message that carries a size
MalformedLiteralEvaluated ==
    /\ e_pc = "done"
    /\ e_condition.field = "size"
    /\ e_condition.operator = "not equals"
    /\ e_condition.value = << "1", "x" >>
    /\ e_message.size # None
    /\ e_result = FALSE
    /\ ~e_raised

-----------------------------------------------------------------------------
\* the generated literals that read as true: "true", "1" and "yes" in any
\* letter case
TrueLiterals ==
    { << "1" >>, << "t", "r", "u", "e" >>, << "T", "r", "u", "E" >>,
      << "Y", "e", "s" >> }

\* the evaluator has run on a numeric or boolean operator and a
\* has_attachment field that is present
AttachmentConditionEvaluated ==
    /\ e_pc = "done"
    /\ e_condition.field = "has_attachment"
    /\ e_condition.operator \in NumericOperators
    /\ e_message.has_attachment # None

\* C24: a has_attachment condition with a present field b and a literal that
\* reads as t, true exactly for "true", "1" and "yes" in any letter case, is
\* b = t for equals, b # t for not equals, b and not t for greater than, t and
\* not b for less than.
AttachmentComparesAsBooleans ==
    AttachmentConditionEvaluated =>
        LET b == e_message.has_attachment[1]
            t == e_condition.value \in TrueLiterals
        IN  e_result =
              CASE e_condition.operator = "equals"       -> (b <=> t)
                [] e_condition.operator = "not equals"   -> ~(b <=> t)
                [] e_condition.operator = "greater than" -> (b /\ ~t)
                [] e_condition.operator = "less than"    -> (~b /\ t)

\* C24 witness: a message without attachment is found less than the literal
\* "Yes"
NoAttachmentLessThanYes ==
    /\ AttachmentConditionEvaluated
    /\ e_condition.operator = "less than"
    /\ e_condition.value = << "Y", "e", "s" >>
    /\ e_message.has_attachment[1] = FALSE
    /\ e_result = TRUE

-----------------------------------------------------------------------------
\* C25: once loaded, the rule set is left as it is by every operation: the
\* summary, the validation and the match (which is all that apply-filters and
\* test-filters do with the rule set) keep the same rules in the same order
\* with the same name, enabled flag, priority, conditions and actions.
RuleSetIsReadOnly ==
    [][l_pc # "new" => l_filters' = l_filters]_vars

\* C25 witness: the summary, the validation and the match have run on a rule
\* set whose second rule has the smaller priority; the match returned the two
\* rules in the other order
OperationsRanOnUnsortedRuleSet ==
    /\ l_summary # None
    /\ l_validation # None
    /\ l_matched # None
    /\ Len(l_filters) = 2
    /\ l_filters[1].priority > l_filters[2].priority
    /\ l_matched[1] = << l_filters[2], l_filters[1] >>
    /\ l_filters = load_filters(l_document[1]).filters

-----------------------------------------------------------------------------
\* a loaded action lacks its payload: a move or copy without a non-empty
\* folder, a mark without a non-empty flag
ActionLacksPayload(action) ==
    \/ action.type \in { "move", "copy" }
         /\ (action.folder = None \/ action.folder[1] = "")
    \/ action.type = "mark" /\ (action.flag = None \/ action.flag[1] = "")

\* a rule of the rule set is structurally invalid: an action without its
\* payload, no condition, no action, a priority below 1, a field, operator or
\* action type outside the enumerations
StructurallyInvalid(rule) ==
    \/ \E k \in 1..Len(rule.actions) : ActionLacksPayload(rule.actions[k])
    \/ rule.conditions = << >>
    \/ rule.actions = << >>
    \/ rule.priority < 1
    \/ \E k \in 1..Len(rule.conditions) :
          \/ rule.conditions[k].field \notin FilterField
          \/ rule.conditions[k].operator \notin FilterOperator
    \/ \E k \in 1..Len(rule.actions) : rule.actions[k].type \notin FilterAction

\* the places of the structurally invalid rules of the rule set
InvalidPlaces ==
    { i \in 1..Len(l_filters) : StructurallyInvalid(l_filters[i]) }

\* C26: the validation returns one entry for each structurally invalid rule
\* of the rule set and none for a valid rule, in the order of the rule set:
\* as many entries as invalid rules, none when every rule is valid.
ValidationReportsEveryInvalidRule ==
    l_validation # None =>
        LET report == l_validation[1]
        IN  /\ Len(report) = Cardinality(InvalidPlaces)
            /\ \A k \in 1..Len(report) :
                  /\ report[k].index \in InvalidPlaces
                  /\ report[k].name = l_filters[report[k].index].name
            /\ \A j, k \in 1..Len(report) :
                  j < k => report[j].index < report[k].index
            /\ InvalidPlaces = {} => report = << >>

\* C26 witness: the validation of a rule set of two invalid rules returned
\* two entries
TwoInvalidRulesReported ==
    /\ l_validation # None
    /\ Len(l_filters) = 2
    /\ InvalidPlaces = { 1, 2 }
    /\ Len(l_validation[1]) = 2
    /\ l_validation[1][1].index = 1
    /\ l_validation[1][2].index = 2

-----------------------------------------------------------------------------
\* the fields that apply-filters never gives to a message
FieldsNotBuilt == { "to", "body", "cc", "bcc", "has_attachment" }

\* the rule has a condition on a field that apply-filters never gives
TestsFieldNotBuilt(rule) ==
    \E k \in 1..Len(rule.conditions) : rule.conditions[k].field \in FieldsNotBuilt

\* C27: the message that apply-filters builds for an id carries none of to,
\* body, cc, bcc and has_attachment; a rule with a condition on one of these
\* fields, whatever its operator, is never among the matching rules of a
\* message and none of its actions is ever announced or executed.
RulesOnFieldsNotBuiltNeverAct ==
    /\ pc = "act" =>
          \A f \in FieldsNotBuilt :
              get_field_value(EnvelopeMessage(Mailbox(CurrentMsg)), f) = None
    /\ \A i \in 1..Len(filters) :
          TestsFieldNotBuilt(filters[i]) =>
              /\ \A r \in 1..Len(matching_filters) :
                    matching_filters[r].name # filters[i].name
              /\ \A k \in 1..Len(attempts) : attempts[k].rule # filters[i].name

\* C27 witness: a live run ended; the rule set holds an enabled rule with
\* negated conditions on the recipient and the attachment, whose condition on
\* the subject holds of a message on which another rule acted
RuleOnRecipientPassedOver ==
    /\ pc = "done"
    /\ ~dry_run
    /\ \E i \in 1..Len(filters) :
          /\ filters[i].enabled
          /\ TestsFieldNotBuilt(filters[i])
          /\ \E c \in 1..Len(filters[i].conditions) :
                filters[i].conditions[c].operator
                    \in { "doesn't contain", "not equals" }
          /\ \E k \in 1..Len(attempts) :
                /\ attempts[k].result = "ok"
                /\ evaluate_condition(filters[i].conditions[1],
                       EnvelopeMessage(Mailbox(attempts[k].msg)))

-----------------------------------------------------------------------------
\* the evaluator has run on a field that is present with a value Python
\* finds falsy: size 0, has_attachment false, an empty text
FalsyFieldEvaluated ==
    /\ e_pc = "done"
    /\ LET v == e_message[KwName(e_condition.field)]
       IN  /\ v # None
           /\ IF e_condition.field = "size" THEN v[1] = 0
              ELSE IF e_condition.field = "has_attachment" THEN v[1] = FALSE
              ELSE v[1] = << >>

\* C28: on a field that is present with size 0, has_attachment false or an
\* empty text the operator is applied as on any other value, to 0, to false
\* and to the empty text: the result is not the false of an absent field.
FalsyFieldIsPresent ==
    FalsyFieldEvaluated =>
        LET operator == e_condition.operator
            literal == e_condition.value
            parsed == { p \in ParsedLiterals : p[1] = literal }
            t == literal \in TrueLiterals
        IN  e_result =
              IF e_condition.field = "size" /\ operator \in NumericOperators
              THEN /\ parsed # {}
                   /\ \A p \in parsed :
                         (CASE operator = "greater than" -> 0 > p[2]
                            [] operator = "less than"    -> 0 < p[2]
                            [] operator = "equals"       -> 0 = p[2]
                            [] operator = "not equals"   -> 0 # p[2])
              ELSE IF e_condition.field = "has_attachment"
                        /\ operator \in NumericOperators
              THEN (CASE operator = "greater than" -> FALSE
                      [] operator = "less than"    -> t
                      [] operator = "equals"       -> ~t
                      [] operator = "not equals"   -> t)
              ELSE IF e_condition.field \in TextFields
                        /\ operator \in StringOperators
              THEN Reference(operator, << >>, Folded(literal))
              ELSE FALSE

\* C28 witness: a message of size 0 is found less than 1
SizeZeroLessThanOne ==
    /\ FalsyFieldEvaluated
    /\ e_condition.field = "size"
    /\ e_condition.operator = "less than"
    /\ e_condition.value = << "1" >>
    /\ e_result = TRUE

-----------------------------------------------------------------------------
(* imap_client.py: IMAPClientWrapper used as a context manager,            *)
(* "with IMAPClientWrapper(config) as client: body"                         *)

\* the operations called in one use of the session, at most
MaxSessionOps == 2

\* the operations of the wrapper on the mail store
SessionOps ==
    { "list_folders", "select_folder", "search_messages",
      "fetch_message_headers", "fetch_message_envelope" }

\* use_ssl, use_starttls, or neither
SessionConfigs == { "ssl", "starttls", "plain" }

\* what the server and the library may do to a connection attempt: accept it,
\* refuse it (IMAPClient(...) raises), and under STARTTLS fail the negotiation
\* for good or in the way that allow_insecure tolerates
ConnectOutcomes(config) ==
    { "ok", "refused" }
      \cup (IF config = "starttls" THEN { "tls_failed", "tls_tolerated" } ELSE {})

\* connect(): self.client is set as soon as IMAPClient(...) returns; every
\* exception leaves as IMAPConnectionError
connect(config, outcome) ==
    CASE outcome = "refused" ->
           [ client |-> FALSE, wire |-> << >>, raised |-> "IMAPConnectionError" ]
      [] outcome = "tls_failed" ->
           [ client |-> TRUE, wire |-> << "open", "starttls" >>,
             raised |-> "IMAPConnectionError" ]
      [] outcome = "tls_tolerated" ->
           [ client |-> TRUE, wire |-> << "open", "starttls" >>,
             raised |-> "none" ]
      [] OTHER ->
           [ client |-> TRUE,
             wire   |-> IF config = "starttls" THEN << "open", "starttls" >>
                        ELSE << "open" >>,
             raised |-> "none" ]

\* what a call of the library may do once the server is contacted
LibraryOutcomes == { "ok", "IMAPClientError", "other" }

\* authenticate(): every exception of login leaves as IMAPAuthenticationError
authenticate(client_set, outcome) ==
    IF ~client_set
    THEN [ wire |-> << >>, raised |-> "IMAPConnectionError" ]
    ELSE [ wire   |-> << "login" >>,
           raised |-> IF outcome = "ok" THEN "none"
                      ELSE "IMAPAuthenticationError" ]

\* list_folders, select_folder, search_messages, fetch_message_headers and
\* fetch_message_envelope: the guard on self.client, then the call of the
\* library; an IMAPClientError leaves as IMAPConnectionError, any other
\* exception as it is
operation(client_set, op, outcome) ==
    IF ~client_set
    THEN [ wire |-> << >>, raised |-> "IMAPConnectionError" ]
    ELSE [ wire   |-> << op >>,
           raised |-> CASE outcome = "ok"              -> "none"
                        [] outcome = "IMAPClientError" -> "IMAPConnectionError"
                        [] OTHER                       -> "other" ]

\* disconnect(): logout when self.client is set, and self.client = None
\* whether logout returned or raised
disconnect(client_set) ==
    IF client_set
    THEN [ client |-> FALSE, wire |-> << "logout" >> ]
    ELSE [ client |-> FALSE, wire |-> << >> ]

InitSession ==
    /\ EvalIdle
    /\ MatchIdle
    /\ LoadIdle
    /\ ApplyIdle
    /\ s_pc = "new"
    /\ s_config \in SessionConfigs
    /\ s_client = FALSE
    /\ s_wire = << >>
    /\ s_left_by = "none"
    /\ s_ops = 0
    /\ s_result = "none"

\* __enter__: self.connect(); an exception leaves the with statement, whose
\* __exit__ is not called for an exception of __enter__
Connect ==
    /\ s_pc = "new"
    /\ \E outcome \in ConnectOutcomes(s_config) :
        LET r == connect(s_config, outcome)
        IN  /\ s_client' = r.client
            /\ s_wire' = s_wire \o r.wire
            /\ IF r.raised = "none"
               THEN s_pc' = "connected" /\ UNCHANGED s_left_by
               ELSE s_pc' = "left" /\ s_left_by' = "connect raised"
    /\ UNCHANGED <<s_config, s_ops, s_result, evalVars, matchVars, loadVars,
                   applyVars>>

\* __enter__: self.authenticate(); return self
Authenticate ==
    /\ s_pc = "connected"
    /\ \E outcome \in LibraryOutcomes :
        LET r == authenticate(s_client, outcome)
        IN  /\ s_wire' = s_wire \o r.wire
            /\ IF r.raised = "none"
               THEN s_pc' = "body" /\ UNCHANGED s_left_by
               ELSE s_pc' = "left" /\ s_left_by' = "authenticate raised"
    /\ UNCHANGED <<s_config, s_client, s_ops, s_result, evalVars, matchVars,
                   loadVars, applyVars>>

\* the body calls an operation; when it raises, the body catches the
\* exception and goes on, or lets it leave, and then __exit__ runs
CallInBody ==
    /\ s_pc = "body"
    /\ s_ops < MaxSessionOps
    /\ \E op \in SessionOps, outcome \in LibraryOutcomes, caught \in BOOLEAN :
        LET r == operation(s_client, op, outcome)
            d == disconnect(s_client)
        IN  IF r.raised = "none" \/ caught
            THEN /\ s_wire' = s_wire \o r.wire
                 /\ UNCHANGED <<s_pc, s_client, s_left_by>>
            ELSE /\ s_wire' = s_wire \o r.wire \o d.wire
                 /\ s_client' = d.client
                 /\ s_pc' = "left"
                 /\ s_left_by' = "body raised"
    /\ s_ops' = s_ops + 1
    /\ UNCHANGED <<s_config, s_result, evalVars, matchVars, loadVars,
                   applyVars>>

\* the body ends, by its last statement or by an exception of its own, and
\* __exit__ runs: self.disconnect()
LeaveBody ==
    /\ s_pc = "body"
    /\ \E how \in { "body completed", "body raised" } :
        LET d == disconnect(s_client)
        IN  /\ s_wire' = s_wire \o d.wire
            /\ s_client' = d.client
            /\ s_pc' = "left"
            /\ s_left_by' = how
    /\ UNCHANGED <<s_config, s_ops, s_result, evalVars, matchVars, loadVars,
                   applyVars>>

\* an operation called on the wrapper after the with statement
CallAfter ==
    /\ s_pc = "left"
    /\ s_ops < MaxSessionOps
    /\ \E op \in SessionOps, outcome \in LibraryOutcomes :
        LET r == operation(s_client, op, outcome)
        IN  /\ s_wire' = s_wire \o r.wire
            /\ s_result' = IF r.raised = "none" THEN "returned" ELSE r.raised
    /\ s_ops' = s_ops + 1
    /\ UNCHANGED <<s_pc, s_config, s_client, s_left_by, evalVars, matchVars,
                   loadVars, applyVars>>

NextSession ==
    \/ Connect
    \/ Authenticate
    \/ CallInBody
    \/ LeaveBody
    \/ CallAfter

SpecSession == InitSession /\ [][NextSession]_vars

\* C29, as claimed: whenever control has left a use of the session in which
\* the connection was made, disconnect has run: logout was sent and the
\* client reference is unset, whether the body completed, the body raised or
\* the authentication failed; and from then on every operation fails with
\* IMAPConnectionError and nothing is sent to the server.
SessionClosedOnEveryExit ==
    (s_pc = "left" /\ s_left_by # "connect raised") =>
        /\ ~s_client
        /\ \E k \in 1..Len(s_wire) : s_wire[k] = "logout"
        /\ s_wire[Len(s_wire)] = "logout"
        /\ s_result \in { "none", "IMAPConnectionError" }

-----------------------------------------------------------------------------
(* The limit of apply-filters *)

\* the ids the loop is to go through: the last min(n, k) of the k ids of the
\* search under a limit n >= 1, all of them under no limit or limit 0
ExpectedIds ==
    LET k == Len(search_result)
    IN  IF limit # None /\ limit[1] >= 1
        THEN SubSeq(search_result, k - Min(limit[1], k) + 1, k)
        ELSE search_result

\* the message ids fetched so far, in the order of the fetches
FetchedIds ==
    LET fetches == SelectSeq(calls, LAMBDA c : c.op = "fetch")
    IN  [ i \in 1..Len(fetches) |-> fetches[i].msg ]

====
